---- MODULE Spec2Model ----
(***************************************************************************)
(* A state-machine model of the classical nested sampler of                *)
(* src/flowproposal/nestedsampler.py: the evidence integrator              *)
(* (_NSintegralState), the sorted live-point store (insert_live_point,     *)
(* populate_live_points), the draw loop (yield_sample, consume_sample),    *)
(* the retraining policy (check_state) and nested_sampling_loop.           *)
(*                                                                         *)
(* Floating point values are modelled in fixed point: a float v is the     *)
(* integer round(v * SCALE); -inf, +inf and NaN are the values NegInf,     *)
(* PosInf and NaN, and every arithmetic operator and comparison below      *)
(* follows IEEE-754 on them (NaN compares false, inf - inf = NaN).         *)
(* Acceptance rates (1 / count and their sums and means) are exact         *)
(* rationals <<n, d>>.  Logging, plotting and file output are left out;    *)
(* the proposal objects and the user model are external collaborators      *)
(* whose answers are nondeterministic inputs.                              *)
(***************************************************************************)
EXTENDS Integers, Sequences, FiniteSets, TLC

VARIABLES
    pc,                  \* position of the run in nested_sampling_loop
    error,               \* the exception that ended the run, "" when none
    max_iteration,       \* NestedSampler.max_iteration
    maximum_uninformed,  \* NestedSampler.maximum_uninformed
    pool,                \* [proposal -> whether proposal.pool is not None]
    live_points,         \* NestedSampler.live_points, <<>> while None
    nested_samples,      \* NestedSampler.nested_samples
    insertion_indices,   \* NestedSampler.insertion_indices
    state,               \* NestedSampler.state, the _NSintegralState
    iteration,           \* NestedSampler.iteration
    block_iteration,     \* NestedSampler.block_iteration
    block_acceptance,    \* NestedSampler.block_acceptance
    mean_block_acceptance, \* NestedSampler.mean_block_acceptance
    accepted,            \* NestedSampler.accepted
    rejected,            \* NestedSampler.rejected
    acceptance_history,  \* NestedSampler.acceptance_history (a deque)
    last_updated,        \* NestedSampler.last_updated
    logLmin,             \* NestedSampler.logLmin
    logLmax,             \* NestedSampler.logLmax
    condition,           \* NestedSampler.condition
    max_count,           \* NestedSampler.max_count
    uninformed_sampling, \* NestedSampler.uninformed_sampling
    proposal,            \* NestedSampler.proposal: "none", "uninformed", "flow"
    populated,           \* self.proposal.populated as last read
    training_iterations, \* NestedSampler.training_iterations
    training_data,       \* the array handed to the last proposal.train call
    resumed,             \* NestedSampler.resumed
    checkpoints,         \* number of checkpoint() calls so far
    worst,               \* consume_sample's local: the copied rank-0 point
    proposed,            \* consume_sample's local: yield_sample's last result
    count,               \* consume_sample's local: trials used this iteration
    history,             \* update_state's periodic snapshots
    rolling_p,           \* NestedSampler.rolling_p
    model,               \* the log-likelihoods the user model returns
    fields,              \* the logQ field of the live-point dtype: "absent",
                         \* or the value new arrays hold in it
    leaky,               \* ImportanceNestedSampler.leaky
    replace_all,         \* ImportanceNestedSampler.replace_all
    update_nested,       \* ImportanceNestedSampler._update_nested_samples
    min_iteration,       \* ImportanceNestedSampler.min_iteration
    dZ,                  \* ImportanceNestedSampler.dZ
    min_logL,            \* ImportanceNestedSampler.min_logL
    n_remove,            \* the importance loop's local n_remove, -1 at first
    training_points,     \* ImportanceNestedSampler.training_points
    finalised,           \* ImportanceNestedSampler.finalised
    min_samples,         \* ImportanceNestedSampler.min_samples
    memory,              \* NestedSampler.memory, 0 for False
    distribution         \* a CategoricalDistribution: n, classes, samples, p

\* the attributes of the importance nested sampler that the classical
\* sampler does not have
importance_vars ==
    << model, fields, leaky, replace_all, update_nested, min_iteration,
       dZ, min_logL, n_remove, training_points, finalised, min_samples >>

vars ==
    << pc, error, max_iteration, maximum_uninformed, pool, live_points,
       nested_samples, insertion_indices, state, iteration, block_iteration,
       block_acceptance, mean_block_acceptance, accepted, rejected,
       acceptance_history, last_updated, logLmin, logLmax, condition,
       max_count, uninformed_sampling, proposal, populated,
       training_iterations, training_data, resumed, checkpoints, worst,
       proposed, count, history, rolling_p,
       model, fields, leaky, replace_all, update_nested, min_iteration,
       dZ, min_logL, n_remove, training_points, finalised, min_samples,
       memory, distribution >>

(***************************************************************************)
(* Bounds of the model.                                                    *)
(***************************************************************************)
\* number of live points of the modelled run (nlive // 10 must be >= 1)
NLive == 10
\* the log-likelihoods the model returns are the MaxLogL + 1 evenly spaced
\* values of [0, 1]
MaxLogL == 2
\* largest max_iteration a run is constructed with
MaxIter == 2
\* value of the rejected counter (it starts at 1) at which the model stops
\* following a run: MaxRejected - 1 draws return their seed while the live
\* points are drawn, and as many in the loop
MaxRejected == 2
\* array lengths and parameter values of the insert_live_point runs
MaxLen == 3
MaxParam == 1
\* increment() calls and nlive overrides of the integrator runs
MaxIncrements == 3
MaxOverride == 2
\* resumes from a checkpoint in one run
MaxResumes == 1
\* stored points of one populate_live_points run whose logP or logL is
\* not finite
MaxNonFinite == 1
\* live points the importance sampler starts from, steps of its
\* log-likelihood grid and passes of its loop
NInitial == 2
MaxLevelLogL == 1
MaxLevels == 2
\* largest memory a run is constructed with
MaxMemory == 1
\* largest min_samples an importance sampler is constructed with
MaxMinSamples == 3
\* the class values of a categorical parameter are 0 .. MaxClass
MaxClass == 2
\* the largest n a CategoricalDistribution is made with
MaxN == 2
\* the most samples one update_samples call is given, per row
MaxSamples == 2
\* the most samples a CategoricalDistribution is let to hold
MaxStored == 3

(***************************************************************************)
(* Floats.                                                                 *)
(***************************************************************************)
\* fixed-point resolution: the float v is the integer round(v * SCALE)
SCALE == 100
NegInf == -1000000
PosInf == 1000000
NaN == 9999999

IsNaN(a) == a = NaN
IsInf(a) == a = NegInf \/ a = PosInf
IsFinite(a) == ~IsNaN(a) /\ ~IsInf(a)

\* a < b, a <= b, a > b of IEEE-754: false when either side is NaN
FLt(a, b) == ~IsNaN(a) /\ ~IsNaN(b) /\ a < b
FLe(a, b) == ~IsNaN(a) /\ ~IsNaN(b) /\ a <= b
FGt(a, b) == FLt(b, a)

FNeg(a) ==
    IF IsNaN(a) THEN NaN
    ELSE IF a = NegInf THEN PosInf
    ELSE IF a = PosInf THEN NegInf
    ELSE -a

FAdd(a, b) ==
    IF IsNaN(a) \/ IsNaN(b) THEN NaN
    ELSE IF IsInf(a) /\ IsInf(b) THEN (IF a = b THEN a ELSE NaN)
    ELSE IF IsInf(a) THEN a
    ELSE IF IsInf(b) THEN b
    ELSE a + b

FSub(a, b) == FAdd(a, FNeg(b))

\* Python's max(a, b): b when b > a, else a
FMax(a, b) == IF FGt(b, a) THEN b ELSE a

\* a / b for a finite, nonzero b (floor of the fixed-point quotient)
FDivFinite(a, b) ==
    IF IsNaN(a) THEN NaN
    ELSE IF IsInf(a) THEN (IF b > 0 THEN a ELSE FNeg(a))
    ELSE IF b > 0 THEN (a * SCALE) \div b
    ELSE -((a * SCALE) \div (-b))

\* round(SCALE * log(1 + exp(-d / SCALE))) for d = 0 .. 530
Log1pExpTable ==
    << 69, 69, 68, 68, 67, 67, 66, 66, 65, 65, 64, 64, 63, 63, 63, 62, 62, 61, 61, 60,
       60, 59, 59, 58, 58, 58, 57, 57, 56, 56, 55, 55, 55, 54, 54, 53, 53, 53, 52, 52,
       51, 51, 51, 50, 50, 49, 49, 49, 48, 48, 47, 47, 47, 46, 46, 46, 45, 45, 44, 44,
       44, 43, 43, 43, 42, 42, 42, 41, 41, 41, 40, 40, 40, 39, 39, 39, 38, 38, 38, 37,
       37, 37, 36, 36, 36, 36, 35, 35, 35, 34, 34, 34, 34, 33, 33, 33, 32, 32, 32, 32,
       31, 31, 31, 31, 30, 30, 30, 29, 29, 29, 29, 28, 28, 28, 28, 28, 27, 27, 27, 27,
       26, 26, 26, 26, 25, 25, 25, 25, 25, 24, 24, 24, 24, 23, 23, 23, 23, 23, 22, 22,
       22, 22, 22, 21, 21, 21, 21, 21, 21, 20, 20, 20, 20, 20, 19, 19, 19, 19, 19, 19,
       18, 18, 18, 18, 18, 18, 17, 17, 17, 17, 17, 17, 16, 16, 16, 16, 16, 16, 16, 15,
       15, 15, 15, 15, 15, 15, 14, 14, 14, 14, 14, 14, 14, 14, 13, 13, 13, 13, 13, 13,
       13, 13, 12, 12, 12, 12, 12, 12, 12, 12, 12, 11, 11, 11, 11, 11, 11, 11, 11, 11,
       11, 10, 10, 10, 10, 10, 10, 10, 10, 10, 10, 9, 9, 9, 9, 9, 9, 9, 9, 9,
       9, 9, 9, 8, 8, 8, 8, 8, 8, 8, 8, 8, 8, 8, 8, 8, 7, 7, 7, 7,
       7, 7, 7, 7, 7, 7, 7, 7, 7, 7, 7, 6, 6, 6, 6, 6, 6, 6, 6, 6,
       6, 6, 6, 6, 6, 6, 6, 6, 5, 5, 5, 5, 5, 5, 5, 5, 5, 5, 5, 5,
       5, 5, 5, 5, 5, 5, 5, 5, 4, 4, 4, 4, 4, 4, 4, 4, 4, 4, 4, 4,
       4, 4, 4, 4, 4, 4, 4, 4, 4, 4, 4, 4, 4, 4, 3, 3, 3, 3, 3, 3,
       3, 3, 3, 3, 3, 3, 3, 3, 3, 3, 3, 3, 3, 3, 3, 3, 3, 3, 3, 3,
       3, 3, 3, 3, 3, 3, 3, 3, 2, 2, 2, 2, 2, 2, 2, 2, 2, 2, 2, 2,
       2, 2, 2, 2, 2, 2, 2, 2, 2, 2, 2, 2, 2, 2, 2, 2, 2, 2, 2, 2,
       2, 2, 2, 2, 2, 2, 2, 2, 2, 2, 2, 2, 2, 2, 2, 2, 2, 2, 2, 2,
       1, 1, 1, 1, 1, 1, 1, 1, 1, 1, 1, 1, 1, 1, 1, 1, 1, 1, 1, 1,
       1, 1, 1, 1, 1, 1, 1, 1, 1, 1, 1, 1, 1, 1, 1, 1, 1, 1, 1, 1,
       1, 1, 1, 1, 1, 1, 1, 1, 1, 1, 1, 1, 1, 1, 1, 1, 1, 1, 1, 1,
       1, 1, 1, 1, 1, 1, 1, 1, 1, 1, 1, 1, 1, 1, 1, 1, 1, 1, 1, 1,
       1, 1, 1, 1, 1, 1, 1, 1, 1, 1, 1, 1, 1, 1, 1, 1, 1, 1, 1, 1,
       1, 1, 1, 1, 1, 1, 1, 1, 1, 1, 0 >>

\* round(SCALE * exp(-d / SCALE)) for d = 0 .. 530
ExpTable ==
    << 100, 99, 98, 97, 96, 95, 94, 93, 92, 91, 90, 90, 89, 88, 87, 86, 85, 84, 84, 83,
       82, 81, 80, 79, 79, 78, 77, 76, 76, 75, 74, 73, 73, 72, 71, 70, 70, 69, 68, 68,
       67, 66, 66, 65, 64, 64, 63, 63, 62, 61, 61, 60, 59, 59, 58, 58, 57, 57, 56, 55,
       55, 54, 54, 53, 53, 52, 52, 51, 51, 50, 50, 49, 49, 48, 48, 47, 47, 46, 46, 45,
       45, 44, 44, 44, 43, 43, 42, 42, 41, 41, 41, 40, 40, 39, 39, 39, 38, 38, 38, 37,
       37, 36, 36, 36, 35, 35, 35, 34, 34, 34, 33, 33, 33, 32, 32, 32, 31, 31, 31, 30,
       30, 30, 30, 29, 29, 29, 28, 28, 28, 28, 27, 27, 27, 26, 26, 26, 26, 25, 25, 25,
       25, 24, 24, 24, 24, 23, 23, 23, 23, 23, 22, 22, 22, 22, 21, 21, 21, 21, 21, 20,
       20, 20, 20, 20, 19, 19, 19, 19, 19, 18, 18, 18, 18, 18, 18, 17, 17, 17, 17, 17,
       17, 16, 16, 16, 16, 16, 16, 15, 15, 15, 15, 15, 15, 15, 14, 14, 14, 14, 14, 14,
       14, 13, 13, 13, 13, 13, 13, 13, 12, 12, 12, 12, 12, 12, 12, 12, 12, 11, 11, 11,
       11, 11, 11, 11, 11, 11, 10, 10, 10, 10, 10, 10, 10, 10, 10, 10, 9, 9, 9, 9,
       9, 9, 9, 9, 9, 9, 9, 8, 8, 8, 8, 8, 8, 8, 8, 8, 8, 8, 8, 8,
       7, 7, 7, 7, 7, 7, 7, 7, 7, 7, 7, 7, 7, 7, 6, 6, 6, 6, 6, 6,
       6, 6, 6, 6, 6, 6, 6, 6, 6, 6, 6, 5, 5, 5, 5, 5, 5, 5, 5, 5,
       5, 5, 5, 5, 5, 5, 5, 5, 5, 5, 5, 4, 4, 4, 4, 4, 4, 4, 4, 4,
       4, 4, 4, 4, 4, 4, 4, 4, 4, 4, 4, 4, 4, 4, 4, 4, 3, 3, 3, 3,
       3, 3, 3, 3, 3, 3, 3, 3, 3, 3, 3, 3, 3, 3, 3, 3, 3, 3, 3, 3,
       3, 3, 3, 3, 3, 3, 3, 3, 3, 2, 2, 2, 2, 2, 2, 2, 2, 2, 2, 2,
       2, 2, 2, 2, 2, 2, 2, 2, 2, 2, 2, 2, 2, 2, 2, 2, 2, 2, 2, 2,
       2, 2, 2, 2, 2, 2, 2, 2, 2, 2, 2, 2, 2, 2, 2, 2, 2, 2, 2, 2,
       1, 1, 1, 1, 1, 1, 1, 1, 1, 1, 1, 1, 1, 1, 1, 1, 1, 1, 1, 1,
       1, 1, 1, 1, 1, 1, 1, 1, 1, 1, 1, 1, 1, 1, 1, 1, 1, 1, 1, 1,
       1, 1, 1, 1, 1, 1, 1, 1, 1, 1, 1, 1, 1, 1, 1, 1, 1, 1, 1, 1,
       1, 1, 1, 1, 1, 1, 1, 1, 1, 1, 1, 1, 1, 1, 1, 1, 1, 1, 1, 1,
       1, 1, 1, 1, 1, 1, 1, 1, 1, 1, 1, 1, 1, 1, 1, 1, 1, 1, 1, 1,
       1, 1, 1, 1, 1, 1, 1, 1, 1, 1, 0 >>

\* round(SCALE * log(1 - exp(-t / SCALE))) for t = 1 .. 100
Log1mExpTable ==
    << -461, -392, -352, -324, -302, -284, -269, -257, -245, -235, -226, -218, -210, -204, -197, -191, -186, -180, -175, -171,
       -166, -162, -158, -154, -151, -147, -144, -141, -138, -135, -132, -130, -127, -124, -122, -120, -117, -115, -113, -111,
       -109, -107, -105, -103, -102, -100, -98, -96, -95, -93, -92, -90, -89, -87, -86, -85, -83, -82, -81, -80,
       -78, -77, -76, -75, -74, -73, -72, -71, -70, -69, -68, -67, -66, -65, -64, -63, -62, -61, -60, -60,
       -59, -58, -57, -57, -56, -55, -54, -54, -53, -52, -52, -51, -50, -50, -49, -48, -48, -47, -46, -46 >>

\* log(1 + exp(-d)) for a float d >= 0
Log1pExpNeg(d) ==
    IF IsNaN(d) THEN NaN
    ELSE IF d >= Len(Log1pExpTable) THEN 0
    ELSE Log1pExpTable[d + 1]

\* exp(-d) for a float d >= 0
ExpNeg(d) ==
    IF IsNaN(d) THEN NaN
    ELSE IF d >= Len(ExpTable) THEN 0
    ELSE ExpTable[d + 1]

\* np.exp(a)
FExp(a) ==
    IF IsNaN(a) THEN NaN
    ELSE IF a = PosInf THEN PosInf
    ELSE IF a <= 0 THEN ExpNeg(-a)
    ELSE IF ExpNeg(a) = 0 THEN PosInf
    ELSE (SCALE * SCALE) \div ExpNeg(a)

\* log(1 - exp(-t)) for a float t >= 0: the stable log(1 - exp) primitive
Log1mExpNeg(t) ==
    IF IsNaN(t) THEN NaN
    ELSE IF t <= 0 THEN NegInf
    ELSE IF t <= Len(Log1mExpTable) THEN Log1mExpTable[t]
    ELSE -ExpNeg(t)

\* posterior.logsubexp(x, y) = log(exp(x) - exp(y)) = x + log(1 - exp(y - x))
logsubexp(x, y) == FAdd(x, Log1mExpNeg(FSub(x, y)))

\* a * b of two finite fixed-point floats
FMulFinite(a, b) == (a * b) \div SCALE

\* a faulty accumulation: the new term replaces the sum
logaddexp_overwrite(x, y) == y

\* np.logaddexp(x, y)
logaddexp(x, y) ==
    IF ~IsNaN(x) /\ x = y THEN FAdd(x, Log1pExpTable[1])
    ELSE LET tmp == FSub(x, y) IN
         IF FGt(tmp, 0) THEN FAdd(x, Log1pExpNeg(tmp))
         ELSE IF FLe(tmp, 0) THEN FAdd(y, Log1pExpNeg(FNeg(tmp)))
         ELSE tmp

(***************************************************************************)
(* Exact rationals <<n, d>> with d > 0, in lowest terms; QNaN is the       *)
(* float NaN (np.mean of an empty deque).                                  *)
(***************************************************************************)
RECURSIVE Gcd(_, _)
Gcd(a, b) == IF b = 0 THEN a ELSE Gcd(b, a % b)

QNaN == << 0, 0 >>
Q(n, d) == LET g == Gcd(n, d) IN IF g = 0 THEN << 0, 1 >> ELSE << n \div g, d \div g >>
QIsNaN(a) == a[2] = 0
QAdd(a, b) ==
    IF QIsNaN(a) \/ QIsNaN(b) THEN QNaN
    ELSE Q(a[1] * b[2] + b[1] * a[2], a[2] * b[2])
QDivInt(a, k) == IF QIsNaN(a) THEN QNaN ELSE Q(a[1], a[2] * k)
QLt(a, b) == ~QIsNaN(a) /\ ~QIsNaN(b) /\ a[1] * b[2] < b[1] * a[2]

RECURSIVE QSum(_)
QSum(s) == IF s = <<>> THEN Q(0, 1) ELSE QAdd(Head(s), QSum(Tail(s)))

\* np.mean of a sequence of rationals
QMean(s) == IF s = <<>> THEN QNaN ELSE QDivInt(QSum(s), Len(s))

(***************************************************************************)
(* Live points and the sorted store.                                       *)
(***************************************************************************)
\* a live point: one parameter x and the reserved fields logP and logL
LivePoint(x, logP, logL) == [x |-> x, logP |-> logP, logL |-> logL]

\* the order np.sort and np.searchsorted use on floats: NaN sorts last
SortLess(a, b) == (~IsNaN(a) /\ IsNaN(b)) \/ FLt(a, b)

\* np.sort(..., order='logL') compares logL first and breaks ties by the
\* remaining fields in dtype order (x, then logP)
PointLess(p, q) ==
    \/ SortLess(p.logL, q.logL)
    \/ /\ ~SortLess(q.logL, p.logL)
       /\ \/ p.x < q.x
          \/ p.x = q.x /\ SortLess(p.logP, q.logP)

\* s is in ascending logL order (ties in any order)
IsSortedByLogL(s) ==
    \A i \in 1..(Len(s) - 1) : ~SortLess(s[i + 1].logL, s[i].logL)

RECURSIVE InsertSorted(_, _)
InsertSorted(p, s) ==
    IF s = <<>> THEN << p >>
    ELSE IF PointLess(Head(s), p) THEN << Head(s) >> \o InsertSorted(p, Tail(s))
    ELSE << p >> \o s

\* np.sort(live_points, order='logL')
RECURSIVE SortByLogL(_)
SortByLogL(s) ==
    IF s = <<>> THEN <<>> ELSE InsertSorted(Head(s), SortByLogL(Tail(s)))

\* np.searchsorted(a['logL'], v): binary search for the leftmost slot
\* (0-based) at which v can be inserted
RECURSIVE BinarySearchLeft(_, _, _, _)
BinarySearchLeft(a, v, lo, hi) ==
    IF lo >= hi THEN lo
    ELSE LET mid == lo + ((hi - lo) \div 2) IN
         IF SortLess(a[mid + 1].logL, v)
         THEN BinarySearchLeft(a, v, mid + 1, hi)
         ELSE BinarySearchLeft(a, v, lo, mid)

searchsorted(a, v) == BinarySearchLeft(a, v, 0, Len(a))

\* a faulty insert_live_point: the new point overwrites slot k - 1 and
\* nothing is shifted down
insert_live_point_noshift(live, live_point) ==
    LET index == searchsorted(live, live_point.logL)
        n == Len(live)
    IN  IF index = 0 /\ n > 1
        THEN [live_points |-> live, index |-> index - 1, error |-> "ValueError"]
        ELSE [live_points |->
                  [j \in 1..n |->
                      IF index = 0 \/ j = index THEN live_point ELSE live[j]],
              index |-> index - 1,
              error |-> ""]

\* a faulty insert_live_point: the rank k is returned, not the slot k - 1
insert_live_point_rank(live, live_point) ==
    LET index == searchsorted(live, live_point.logL)
        n == Len(live)
    IN  IF index = 0 /\ n > 1
        THEN [live_points |-> live, index |-> index, error |-> "ValueError"]
        ELSE [live_points |->
                  [j \in 1..n |->
                      IF index = 0 THEN live_point
                      ELSE IF j < index THEN live[j + 1]
                      ELSE IF j = index THEN live_point
                      ELSE live[j]],
              index |-> index,
              error |-> ""]

\* NestedSampler.insert_live_point: the new array, the returned index and
\* the exception raised, if any.  With index = 0 the slice assignment
\* live_points[:-1] = live_points[1:0] copies an empty array into nlive - 1
\* slots, which numpy refuses unless nlive = 1.
insert_live_point(live, live_point) ==
    LET index == searchsorted(live, live_point.logL)
        n == Len(live)
    IN  IF index = 0 /\ n > 1
        THEN [live_points |-> live, index |-> index - 1, error |-> "ValueError"]
        ELSE [live_points |->
                  [j \in 1..n |->
                      IF index = 0 THEN live_point
                      ELSE IF j < index THEN live[j + 1]
                      ELSE IF j = index THEN live_point
                      ELSE live[j]],
              index |-> index - 1,
              error |-> ""]

(***************************************************************************)
(* _NSintegralState.                                                       *)
(***************************************************************************)
\* a faulty reset: the gradients history is not seeded
reset_no_gradients(nlive) ==
    [nlive |-> nlive, iteration |-> 0, logZ |-> NegInf, oldZ |-> NegInf,
     logw |-> 0, info |-> << 0 >>, logLs |-> << NegInf >>,
     log_vols |-> << 0 >>, gradients |-> <<>>]

\* _NSintegralState.__init__ / reset
reset(nlive) ==
    [nlive |-> nlive, iteration |-> 0, logZ |-> NegInf, oldZ |-> NegInf,
     logw |-> 0, info |-> << 0 >>, logLs |-> << NegInf >>,
     log_vols |-> << 0 >>, gradients |-> << 0 >>]

Last(s) == s[Len(s)]

\* the information estimate increment() appends when oldZ, logZ and logL
\* are all finite
NewInfo(st, oldZ, logZ, Wt, logL) ==
    LET info == FMulFinite(FExp(FSub(Wt, logZ)), logL)
                + FMulFinite(FExp(FSub(oldZ, logZ)), Last(st.info) + oldZ)
                - logZ
    IN  IF IsNaN(info) THEN 0 ELSE info

\* _NSintegralState.increment(logL, nlive)
increment(st, logL, nlive) ==
    LET oldZ == st.logZ
        logt == -(SCALE \div nlive)
        Wt == FAdd(FAdd(st.logw, logL), logsubexp(0, logt))
        logZ == logaddexp(st.logZ, Wt)
        info == IF IsFinite(oldZ) /\ IsFinite(logZ) /\ IsFinite(logL)
                THEN Append(st.info, NewInfo(st, oldZ, logZ, Wt, logL))
                ELSE st.info
        logw == st.logw + logt
    IN  [st EXCEPT !.logZ = logZ,
                   !.info = info,
                   !.logw = logw,
                   !.iteration = st.iteration + 1,
                   !.logLs = Append(st.logLs, logL),
                   !.log_vols = Append(st.log_vols, logw),
                   !.gradients = Append(st.gradients,
                       FDivFinite(FSub(logL, Last(st.logLs)),
                                  logw - Last(st.log_vols)))]

\* posterior.log_integrate_log_trap(log_func, log_support): the trapezoidal
\* rule in log space, folded with np.logaddexp.reduce
RECURSIVE LogTrapFrom(_, _, _, _)
LogTrapFrom(log_func, log_support, i, acc) ==
    IF i >= Len(log_func) THEN acc
    ELSE LET log_func_sum == FSub(logaddexp(log_func[i], log_func[i + 1]),
                                  Log1pExpTable[1])
             log_dx == logsubexp(log_support[i], log_support[i + 1])
         IN  LogTrapFrom(log_func, log_support, i + 1,
                         logaddexp(acc, FAdd(log_func_sum, log_dx)))

log_integrate_log_trap(log_func, log_support) ==
    LogTrapFrom(log_func, log_support, 1, NegInf)

\* _NSintegralState.finalise
finalise(st) ==
    [st EXCEPT !.logZ = log_integrate_log_trap(st.logLs, st.log_vols)]

(***************************************************************************)
(* NestedSampler: configuration.                                           *)
(***************************************************************************)
nlive == NLive
\* stopping = 3.0
tolerance == 300
cooldown == 2
training_frequency == 2
acceptance_threshold == << 3, 5 >>
train_on_empty == TRUE
retrain_acceptance == TRUE
checkpointing == TRUE
\* __init__ sets self.force_train = True whatever the argument says
force_train == TRUE

\* __init__: 0.1 * acceptance_threshold when that is below 0.1
uninformed_acceptance_threshold ==
    IF QLt(acceptance_threshold, << 1, 10 >>)
    THEN Q(acceptance_threshold[1], 10 * acceptance_threshold[2])
    ELSE acceptance_threshold

Proposals == {"uninformed", "flow"}

\* the finite log-likelihoods the user model returns in a run of the
\* sampler; it returns -inf and NaN too, and those never pass the test
\* logL > logLmin of yield_sample
LogLRange == {(l * SCALE) \div MaxLogL : l \in 0..MaxLogL}

\* model.new_point(): a prior draw with logP populated and logL at its
\* default value 0 (not evaluated)
new_point == LivePoint(0, 0, 0)

\* no importance nested sampler is constructed in a run of NestedSampler
NoImportanceSampler ==
    /\ model = LogLRange
    /\ fields = "absent"
    /\ leaky = FALSE
    /\ replace_all = FALSE
    /\ update_nested = FALSE
    /\ min_iteration = 0
    /\ dZ = 0
    /\ min_logL = 0
    /\ n_remove = 0
    /\ training_points = <<>>
    /\ finalised = FALSE
    /\ min_samples = 0

\* no CategoricalDistribution has been made; an attribute that is None is
\* <<>>, an attribute with the value v is << v >>
NoDistribution == [n |-> <<>>, classes |-> <<>>, samples |-> <<>>, p |-> <<>>]

\* NestedSampler.__init__(..., memory=mem): every attribute but
\* live_points
ConstructedSampler(maxit, maxun, mem) ==
    /\ NoImportanceSampler
    /\ memory = mem
    /\ error = ""
    /\ max_iteration = maxit
    /\ maximum_uninformed = maxun
    /\ uninformed_sampling = (maxun # 0)
    /\ pool = [p \in Proposals |-> "unknown"]
    /\ nested_samples = <<>>
    /\ insertion_indices = <<>>
    /\ state = reset(nlive)
    /\ iteration = 0
    /\ block_iteration = 0
    /\ block_acceptance = Q(1, 1)
    /\ mean_block_acceptance = Q(1, 1)
    /\ accepted = 0
    /\ rejected = 1
    /\ acceptance_history = <<>>
    /\ last_updated = 0
    /\ logLmin = NegInf
    /\ logLmax = NegInf
    /\ condition = PosInf
    /\ max_count = 0
    /\ proposal = "none"
    /\ populated = FALSE
    /\ training_iterations = <<>>
    /\ training_data = <<>>
    /\ resumed = FALSE
    /\ checkpoints = 0
    /\ worst = new_point
    /\ proposed = new_point
    /\ count = 0
    /\ history = <<>>
    /\ rolling_p = <<>>

\* NestedSampler.__init__(..., memory=mem) in a program that makes no
\* CategoricalDistribution
ConstructedWith(maxit, maxun, mem) ==
    /\ ConstructedSampler(maxit, maxun, mem)
    /\ distribution = NoDistribution

\* NestedSampler.__init__ with memory=False, the default: every attribute
\* but live_points
ConstructedFields(maxit, maxun) == ConstructedWith(maxit, maxun, 0)

\* NestedSampler.__init__: live_points is None
Constructed(maxit, maxun) ==
    /\ ConstructedFields(maxit, maxun)
    /\ live_points = <<>>

Init ==
    /\ pc = "init"
    /\ \E maxit \in {0, MaxIter}, maxun \in {0, 1} : Constructed(maxit, maxun)

\* NestedSampler.__init__ with any memory
InitMemory ==
    /\ pc = "init"
    /\ \E maxit \in {0, MaxIter}, maxun \in {0, 1}, mem \in 0..MaxMemory :
           /\ ConstructedWith(maxit, maxun, mem)
           /\ live_points = <<>>

(***************************************************************************)
(* yield_sample.                                                           *)
(***************************************************************************)
\* the first value of counter with 1 / counter < acceptance_threshold
StallCounter == (acceptance_threshold[2] \div acceptance_threshold[1]) + 1

\* One call next(self.yield_sample(oldparam)): the counter and the point it
\* yields, and how the inner loop ended.  A candidate is accepted when its
\* logP is not -inf and its logL > logLmin; the seed comes back when
\* 1 / counter < acceptance_threshold ("stall", max_count += 1) or when
\* proposal.populated is false after a draw ("empty").
\* LogPs and LogLs are the values model.log_prior and the log-likelihood
\* take on the candidates.
yield_sample_from(oldparam, logLmin_, LogPs, LogLs) ==
    {[counter |-> k, point |-> LivePoint(0, p, l), kind |-> "accept"] :
        k \in 1..StallCounter,
        p \in {v \in LogPs : v # NegInf},
        l \in {v \in LogLs : FGt(v, logLmin_)}}
    \cup
    {[counter |-> StallCounter, point |-> oldparam, kind |-> "stall"]}
    \cup
    {[counter |-> k, point |-> oldparam, kind |-> "empty"] :
        k \in 1..(StallCounter - 1)}

\* yield_sample in a run of the sampler: finite log-priors and the
\* log-likelihoods of LogLRange
yield_sample(oldparam, logLmin_) ==
    yield_sample_from(oldparam, logLmin_, {0}, LogLRange)

(***************************************************************************)
(* update_state and check_insertion_indices.                               *)
(***************************************************************************)
\* NestedSampler.mean_acceptance
mean_acceptance(hist) == QMean(hist)

\* deque(maxlen=nlive // 10).append
DequeAppend(d, v) ==
    LET maxlen == nlive \div 10 IN
    IF maxlen = 0 THEN <<>>
    ELSE IF Len(d) >= maxlen THEN Append(Tail(d), v)
    ELSE Append(d, v)

\* check_insertion_indices(rolling=True): compute_indices_ks_test returns
\* no p-value for fewer than nlive indices
check_insertion_indices(indices, rp) ==
    IF Len(indices) >= nlive THEN Append(rp, "p") ELSE rp

\* NestedSampler.update_state(force), on the values given: the new
\* history, rolling_p, block_acceptance and block_iteration.  The snapshot
\* period nlive // 10 is at least 1 for every nlive >= NLive.
update_state(force, it, cond, lmax, zstate, hist, rp, bacc, bit) ==
    LET snap == (it % (nlive \div 10) = 0) \/ force
        full == (it % nlive = 0) \/ force
    IN  [history |->
             IF snap
             THEN Append(hist, [logLmin |-> logLmin, logLmax |-> lmax,
                                logZ |-> zstate.logZ, condition |-> cond,
                                mean_acceptance |->
                                    mean_acceptance(acceptance_history)])
             ELSE hist,
         rolling_p |->
             IF full /\ ~force
             THEN check_insertion_indices(insertion_indices, rp)
             ELSE rp,
         block_acceptance |->
             IF full /\ uninformed_sampling THEN Q(0, 1) ELSE bacc,
         block_iteration |->
             IF full /\ uninformed_sampling THEN 0 ELSE bit]

(***************************************************************************)
(* check_state.                                                            *)
(***************************************************************************)
\* a faulty cooldown test: training is never suppressed
no_cooldown(force, since) == FALSE

\* check_state's test "self.iteration - self.last_updated < self.cooldown
\* and not force", on the value force has by then
cooling_down(force, since) == since < cooldown /\ ~force

\* a faulty resume test: a training that is due is never skipped
resume_skip_never(due, was_resumed) == FALSE

\* check_state's branch "elif self.resumed", reached when a training is due
\* (decided and not cooling down): the training is skipped
resume_skip(due, was_resumed) == due /\ was_resumed

\* check_state's training data: the live points and, with memory set and
\* that many nested samples, np.concatenate of them with the one element
\* nested_samples[-memory] of the list, a record and no array, which
\* np.concatenate refuses
training_set(live, nested, mem) ==
    IF mem # 0 /\ Len(nested) # 0 /\ Len(nested) >= mem
    THEN [error |-> "ValueError", data |-> live]
    ELSE [error |-> "", data |-> live]

\* NestedSampler.check_state(force, rejected): what it leaves behind when
\* self.proposal.populated reads pop and, on a switch, the uninformed
\* proposal's pool reads pool_set
check_state(force, is_rejected, pop, pool_set) ==
    LET switch ==
            /\ uninformed_sampling
            /\ \/ QLt(mean_acceptance(acceptance_history),
                      uninformed_acceptance_threshold)
               \/ iteration >= maximum_uninformed
        stay == uninformed_sampling /\ ~switch
        \* self.porposal.close_pool(): no such attribute
        crash == switch /\ pool_set = "set"
        prop == IF switch THEN "flow" ELSE proposal
        since == iteration - last_updated
        low == QLt(mean_block_acceptance, acceptance_threshold)
        empty == ~pop /\ train_on_empty
        train ==
            \/ force
            \/ low /\ since < cooldown /\ retrain_acceptance
            \/ is_rejected /\ low /\ retrain_acceptance
            \/ since % training_frequency = 0
            \/ empty
        forced == force \/ (empty /\ force_train)
        cooling == cooling_down(forced, since)
        due == ~stay /\ ~crash /\ train /\ ~cooling
        started == due /\ ~resume_skip(due, resumed)
        ts == training_set(live_points, nested_samples, memory)
        go == started /\ ts.error = ""
    IN  [error |-> IF crash THEN "AttributeError"
                   ELSE IF started THEN ts.error ELSE "",
         pool_read |-> switch,
         populated_read |-> ~stay /\ ~crash,
         proposal |-> IF crash THEN proposal ELSE prop,
         uninformed_sampling |-> IF crash THEN uninformed_sampling
                                 ELSE uninformed_sampling /\ ~switch,
         resumed |-> IF due THEN FALSE ELSE resumed,
         trained |-> go,
         training_data |-> IF go THEN ts.data ELSE training_data,
         training_iterations |->
             IF go THEN Append(training_iterations, iteration)
             ELSE training_iterations,
         last_updated |-> IF go THEN iteration ELSE last_updated,
         block_iteration |-> IF go THEN 0 ELSE block_iteration,
         block_acceptance |-> IF go THEN Q(0, 1) ELSE block_acceptance,
         checkpoints |-> IF go /\ checkpointing THEN checkpoints + 1
                         ELSE checkpoints]

(***************************************************************************)
(* populate_live_points.                                                   *)
(***************************************************************************)
\* k copies of the point p
RECURSIVE Copies(_, _)
Copies(p, k) == IF k = 0 THEN <<>> ELSE << p >> \o Copies(p, k - 1)

RECURSIVE Total(_, _)
Total(acc, S) ==
    IF S = {} THEN 0
    ELSE LET l == CHOOSE l \in S : TRUE IN acc[l] + Total(acc, S \ {l})

\* the ways m accepted candidates spread over the log-likelihoods; the
\* model follows the runs whose initial draws take each log-likelihood
\* above the lowest at most once
Allocations(m) ==
    {acc \in [LogLRange -> 0..m] :
        /\ Total(acc, LogLRange) = m
        /\ \A l \in LogLRange \ {0} : acc[l] <= 1}

\* the accepted candidates in the order drawn (any order: the array is
\* sorted afterwards)
RECURSIVE Drawn(_, _)
Drawn(acc, S) ==
    IF S = {} THEN <<>>
    ELSE LET l == CHOOSE l \in S : \A m \in S : m <= l
         IN  Copies(LivePoint(0, 0, l), acc[l]) \o Drawn(acc, S \ {l})

\* self.logLmax after the draws: the largest accepted logL
RECURSIVE MaxAccepted(_, _)
MaxAccepted(acc, S) ==
    IF S = {} THEN NegInf
    ELSE LET l == CHOOSE l \in S : TRUE
         IN  IF acc[l] > 0 THEN FMax(MaxAccepted(acc, S \ {l}), l)
             ELSE MaxAccepted(acc, S \ {l})

\* a faulty populate_live_points: the array is left in the order drawn
populate_live_points_unsorted(acc, seeds) ==
    Drawn(acc, LogLRange) \o Copies(new_point, seeds)

\* NestedSampler.populate_live_points.  Each of the nlive calls
\* next(self.yield_sample(self.model.new_point())) runs with logLmin = -inf
\* and stores one point: an accepted candidate or, after a stalled or
\* emptied draw, the seed, whose logP and logL are not -inf.  acc[l]
\* candidates of log-likelihood l are accepted and seeds draws return the
\* seed; the array is sorted at the end.
populate_live_points(acc, seeds) ==
    SortByLogL(Drawn(acc, LogLRange) \o Copies(new_point, seeds))

(***************************************************************************)
(* nested_sampling_loop, one step at a time.                               *)
(***************************************************************************)
\* the test of the while loop
LoopTest(cond) == IF FGt(cond, tolerance) THEN "check_state" ELSE "final"

\* nested_sampling_loop up to the while loop: initialise() chooses the
\* proposal and draws the live points, then update_state()
Start ==
    /\ pc = "init"
    /\ \E stalls \in 0..(MaxRejected - 1), empties \in 0..(MaxRejected - 1) :
         /\ stalls + empties <= MaxRejected - 1
         /\ \E acc \in Allocations(nlive - stalls - empties) :
              \E lmax \in {MaxAccepted(acc, LogLRange)} :
              \E u \in {update_state(FALSE, iteration, condition, lmax, state,
                                      history, rolling_p, block_acceptance,
                                      block_iteration)} :
                  /\ proposal' = IF iteration < maximum_uninformed
                                 THEN "uninformed" ELSE "flow"
                  /\ live_points' = populate_live_points(acc, stalls + empties)
                  /\ logLmax' = lmax
                  /\ max_count' = max_count + stalls
                  /\ history' = u.history
                  /\ rolling_p' = u.rolling_p
                  /\ block_acceptance' = u.block_acceptance
                  /\ block_iteration' = u.block_iteration
                  /\ pc' = LoopTest(condition)
    /\ UNCHANGED << memory, distribution >>
    /\ UNCHANGED << importance_vars, error, max_iteration, maximum_uninformed, pool,
                    nested_samples, insertion_indices, state, iteration,
                    mean_block_acceptance, accepted, rejected,
                    acceptance_history, last_updated, logLmin, condition,
                    uninformed_sampling, populated, training_iterations,
                    training_data, resumed, checkpoints, worst, proposed,
                    count >>

\* self.check_state() at the top of the loop body
CheckState ==
    /\ pc = "check_state"
    /\ \E pop \in BOOLEAN, pool_set \in {"set", "none"} :
         \E r \in {check_state(FALSE, FALSE, pop, pool_set)} :
         /\ error' = r.error
         /\ populated' = IF r.populated_read THEN pop ELSE populated
         /\ pc' = IF r.error = "" THEN "consume" ELSE "crashed"
         /\ pool' = IF r.pool_read
                    THEN [pool EXCEPT ![proposal] = pool_set] ELSE pool
         /\ proposal' = r.proposal
         /\ uninformed_sampling' = r.uninformed_sampling
         /\ resumed' = r.resumed
         /\ training_data' = r.training_data
         /\ training_iterations' = r.training_iterations
         /\ last_updated' = r.last_updated
         /\ block_iteration' = r.block_iteration
         /\ block_acceptance' = r.block_acceptance
         /\ checkpoints' = r.checkpoints
    /\ UNCHANGED << memory, distribution >>
    /\ UNCHANGED << importance_vars, max_iteration, maximum_uninformed, live_points,
                    nested_samples, insertion_indices, state, iteration,
                    mean_block_acceptance, accepted, rejected,
                    acceptance_history, logLmin, logLmax, condition,
                    max_count, worst, proposed, count, history, rolling_p >>

\* consume_sample up to its while loop: archive the worst point
ConsumeWorst ==
    /\ pc = "consume"
    /\ \E w \in {live_points[1]} :
       \E st \in {increment(state, w.logL, state.nlive)} :
           /\ worst' = w
           /\ logLmin' = w.logL
           /\ state' = st
           /\ nested_samples' = Append(nested_samples, w)
           /\ condition' =
                  FSub(logaddexp(st.logZ,
                                 FSub(logLmax, (iteration * SCALE) \div nlive)),
                       st.logZ)
    /\ iteration' = iteration + 1
    /\ block_iteration' = block_iteration + 1
    /\ count' = 0
    /\ pc' = "draw"
    /\ UNCHANGED << memory, distribution >>
    /\ UNCHANGED << importance_vars, error, max_iteration, maximum_uninformed, pool,
                    live_points, insertion_indices, block_acceptance,
                    mean_block_acceptance, accepted, rejected,
                    acceptance_history, last_updated, logLmax, max_count,
                    uninformed_sampling, proposal, populated,
                    training_iterations, training_data, resumed, checkpoints,
                    proposed, history, rolling_p >>

\* one pass of consume_sample's while loop whose draw is accepted: insert
\* the point, then finish consume_sample
DrawAccepted ==
    /\ pc = "draw"
    /\ \E o \in yield_sample(worst, logLmin) :
         /\ FGt(o.point.logL, logLmin)
         /\ \E c \in {count + o.counter} :
            \E r \in {insert_live_point(live_points, o.point)},
               bacc \in {QAdd(block_acceptance, Q(1, c))} :
                /\ count' = c
                /\ proposed' = o.point
                /\ logLmax' = IF o.kind = "accept"
                              THEN FMax(logLmax, o.point.logL) ELSE logLmax
                /\ max_count' = IF o.kind = "stall"
                                THEN max_count + 1 ELSE max_count
                /\ live_points' = r.live_points
                /\ IF r.error # ""
                   THEN /\ error' = r.error
                        /\ pc' = "crashed"
                        /\ UNCHANGED << insertion_indices, accepted,
                                        block_acceptance, acceptance_history,
                                        mean_block_acceptance >>
                   ELSE /\ insertion_indices' =
                               Append(insertion_indices, r.index)
                        /\ accepted' = accepted + 1
                        /\ block_acceptance' = bacc
                        /\ acceptance_history' =
                               DequeAppend(acceptance_history, Q(1, c))
                        /\ IF block_iteration = 0
                           THEN /\ error' = "ZeroDivisionError"
                                /\ pc' = "crashed"
                                /\ UNCHANGED mean_block_acceptance
                           ELSE /\ mean_block_acceptance' =
                                       QDivInt(bacc, block_iteration)
                                /\ pc' = "update_state"
                                /\ UNCHANGED error
    /\ UNCHANGED << memory, distribution >>
    /\ UNCHANGED << importance_vars, max_iteration, maximum_uninformed, pool, nested_samples,
                    state, iteration, block_iteration, rejected,
                    last_updated, logLmin, condition, uninformed_sampling,
                    proposal, populated, training_iterations, training_data,
                    resumed, checkpoints, worst, history, rolling_p >>

\* a faulty loop: the count of the block is left as check_state left it
block_iteration_left(b) == b

\* if not self.block_iteration: self.block_iteration += 1, after
\* check_state(rejected=True)
block_iteration_after_rejection(b) == IF b = 0 THEN b + 1 ELSE b

\* one pass of consume_sample's while loop whose draw is not accepted:
\* count the rejection and call check_state(rejected=True)
DrawRejected ==
    /\ pc = "draw"
    /\ rejected < MaxRejected
    /\ \E o \in yield_sample(worst, logLmin), pop \in BOOLEAN,
          pool_set \in {"set", "none"} :
         /\ ~FGt(o.point.logL, logLmin)
         /\ o.kind = "empty" => ~pop
         /\ \E r \in {check_state(FALSE, TRUE, pop, pool_set)} :
                /\ count' = count + o.counter
                /\ proposed' = o.point
                /\ max_count' = IF o.kind = "stall"
                                THEN max_count + 1 ELSE max_count
                /\ populated' = IF r.populated_read THEN pop ELSE populated
                /\ rejected' = rejected + 1
                /\ error' = r.error
                /\ pc' = IF r.error = "" THEN "draw" ELSE "crashed"
                /\ pool' = IF r.pool_read
                           THEN [pool EXCEPT ![proposal] = pool_set] ELSE pool
                /\ proposal' = r.proposal
                /\ uninformed_sampling' = r.uninformed_sampling
                /\ resumed' = r.resumed
                /\ training_data' = r.training_data
                /\ training_iterations' = r.training_iterations
                /\ last_updated' = r.last_updated
                /\ block_acceptance' = r.block_acceptance
                /\ checkpoints' = r.checkpoints
                /\ block_iteration' =
                       IF r.error = ""
                       THEN block_iteration_after_rejection(r.block_iteration)
                       ELSE r.block_iteration
    /\ UNCHANGED << memory, distribution >>
    /\ UNCHANGED << importance_vars, max_iteration, maximum_uninformed, live_points,
                    nested_samples, insertion_indices, state, iteration,
                    mean_block_acceptance, accepted, acceptance_history,
                    logLmin, logLmax, condition, worst, history, rolling_p >>

\* self.update_state(), the max_iteration break and the while test
UpdateState ==
    /\ pc = "update_state"
    /\ \E u \in {update_state(FALSE, iteration, condition, logLmax, state,
                                history, rolling_p, block_acceptance,
                                block_iteration)} :
           /\ history' = u.history
           /\ rolling_p' = u.rolling_p
           /\ block_acceptance' = u.block_acceptance
           /\ block_iteration' = u.block_iteration
    /\ pc' = IF iteration >= max_iteration THEN "final"
             ELSE LoopTest(condition)
    /\ UNCHANGED << memory, distribution >>
    /\ UNCHANGED << importance_vars, error, max_iteration, maximum_uninformed, pool,
                    live_points, nested_samples, insertion_indices, state,
                    iteration, mean_block_acceptance, accepted, rejected,
                    acceptance_history, last_updated, logLmin, logLmax,
                    condition, max_count, uninformed_sampling, proposal,
                    populated, training_iterations, training_data, resumed,
                    checkpoints, worst, proposed, count >>

\* a faulty final sweep: the remaining live points are taken from the
\* highest log-likelihood down
RECURSIVE FinalIncrementsReversed(_, _, _)
FinalIncrementsReversed(st, live, i) ==
    IF i >= Len(live) THEN st
    ELSE FinalIncrementsReversed(
             increment(st, live[Len(live) - i].logL, nlive - i), live, i + 1)

\* a faulty final sweep: every increment uses the integrator's own nlive
RECURSIVE FinalIncrementsNoOverride(_, _, _)
FinalIncrementsNoOverride(st, live, i) ==
    IF i >= Len(live) THEN st
    ELSE FinalIncrementsNoOverride(increment(st, live[i + 1].logL, st.nlive),
                                   live, i + 1)

\* the final adjustments: state.increment(p['logL'], nlive=self.nlive - i)
\* for the i-th (0-based) remaining live point, in array order
RECURSIVE FinalIncrements(_, _, _)
FinalIncrements(st, live, i) ==
    IF i >= Len(live) THEN st
    ELSE FinalIncrements(increment(st, live[i + 1].logL, nlive - i),
                         live, i + 1)

\* nested_sampling_loop after the while loop: close the pool, sweep the
\* remaining live points into the integrator and nested_samples,
\* update_state(force=True), finalise(), checkpoint
Finish ==
    /\ pc = "final"
    /\ pool' = [pool EXCEPT ![proposal] = "none"]
    /\ \E st \in {FinalIncrements(state, live_points, 0)} :
       \E u \in {update_state(TRUE, iteration, condition, logLmax, st,
                             history, rolling_p, block_acceptance,
                             block_iteration)} :
           /\ state' = finalise(st)
           /\ nested_samples' = nested_samples \o live_points
           /\ history' = u.history
           /\ rolling_p' = u.rolling_p
           /\ block_acceptance' = u.block_acceptance
           /\ block_iteration' = u.block_iteration
    /\ checkpoints' = IF checkpointing THEN checkpoints + 1 ELSE checkpoints
    /\ pc' = "done"
    /\ UNCHANGED << memory, distribution >>
    /\ UNCHANGED << importance_vars, error, max_iteration, maximum_uninformed, live_points,
                    insertion_indices, iteration, mean_block_acceptance,
                    accepted, rejected, acceptance_history, last_updated,
                    logLmin, logLmax, condition, max_count,
                    uninformed_sampling, proposal, populated,
                    training_iterations, training_data, resumed, worst,
                    proposed, count >>

Next ==
    \/ Start
    \/ CheckState
    \/ ConsumeWorst
    \/ DrawAccepted
    \/ DrawRejected
    \/ UpdateState
    \/ Finish

Spec == Init /\ [][Next]_vars

(***************************************************************************)
(* Runs that are interrupted and resumed from a checkpoint.                *)
(***************************************************************************)
\* the checkpoint written by the check_state call at the top of the loop
\* body holds the sampler as it is now: that call has just trained
AtCheckpoint ==
    /\ pc = "consume"
    /\ training_iterations # <<>>
    /\ Last(training_iterations) = iteration
    /\ last_updated = iteration
    /\ block_iteration = 0

\* the run is interrupted, NestedSampler.resume loads the checkpoint,
\* drops the flow proposal's pool and sets the resumed flag, and
\* nested_sampling_loop is called on the result: update_state() and the
\* while test (the pickled sampler is initialised).  A run that was not
\* resumed has recorded iteration + 1 history entries by now.
Resume ==
    /\ AtCheckpoint
    /\ Len(history) - (iteration + 1) < MaxResumes
    /\ resumed' = TRUE
    /\ pool' = [pool EXCEPT !["flow"] = "none"]
    /\ \E u \in {update_state(FALSE, iteration, condition, logLmax, state,
                                history, rolling_p, block_acceptance,
                                block_iteration)} :
           /\ history' = u.history
           /\ rolling_p' = u.rolling_p
           /\ block_acceptance' = u.block_acceptance
           /\ block_iteration' = u.block_iteration
    /\ pc' = LoopTest(condition)
    /\ UNCHANGED << memory, distribution >>
    /\ UNCHANGED << importance_vars, error, max_iteration, maximum_uninformed, live_points,
                    nested_samples, insertion_indices, state, iteration,
                    mean_block_acceptance, accepted, rejected,
                    acceptance_history, last_updated, logLmin, logLmax,
                    condition, max_count, uninformed_sampling, proposal,
                    populated, training_iterations, training_data,
                    checkpoints, worst, proposed, count >>

NextResume ==
    \/ Next
    \/ Resume

\* the runs of nested_sampling_loop with and without memory
SpecMemory == InitMemory /\ [][Next]_vars

SpecResume == Init /\ [][NextResume]_vars

(***************************************************************************)
(* populate_live_points on its own, one draw at a time, for a user model   *)
(* whose log-prior and log-likelihood take any float value.                *)
(***************************************************************************)
\* the values model.log_prior and model.evaluate_log_likelihood return
AnyLogP == {0, NegInf, PosInf, NaN}
AnyLogL == {0, SCALE, NegInf, PosInf, NaN}

\* both fields of the point are finite
FinitePoint(p) == IsFinite(p.logP) /\ IsFinite(p.logL)

\* the number of entries of s with a field that is not finite
NonFinite(s) == Cardinality({i \in 1..Len(s) : ~FinitePoint(s[i])})

\* populate_live_points' test for storing the point a draw returned
populate_stores(live_point) ==
    live_point.logP # NegInf /\ live_point.logL # NegInf

InitPopulate == pc = "populate" /\ Constructed(0, 0)

\* one pass of populate_live_points' loop: next(self.yield_sample(
\* self.model.new_point())), the NaN warning, the store test; the pass
\* that fills the last slot leaves the loop and sorts the array.  As in
\* the runs of the sampler at most MaxRejected - 1 draws stall and each
\* finite point with a log-likelihood above the lowest is drawn at most
\* once.
PopulateDraw ==
    /\ pc = "populate"
    /\ Len(live_points) < nlive
    /\ \E o \in yield_sample_from(new_point, logLmin, AnyLogP, AnyLogL) :
         /\ o.kind = "stall" => max_count < MaxRejected - 1
         /\ (o.kind = "accept" /\ ~FinitePoint(o.point))
                => NonFinite(live_points) < MaxNonFinite
         /\ (o.kind = "accept" /\ FinitePoint(o.point) /\ o.point.logL # 0)
                => \A i \in 1..Len(live_points) :
                       live_points[i].logL # o.point.logL
         /\ \E store \in {IF populate_stores(o.point)
                           THEN Append(live_points, o.point)
                           ELSE live_points} :
                /\ live_points' = IF Len(store) = nlive
                                  THEN SortByLogL(store) ELSE store
                /\ pc' = IF Len(store) = nlive
                         THEN "populated" ELSE "populate"
         /\ logLmax' = IF o.kind = "accept"
                        THEN FMax(logLmax, o.point.logL) ELSE logLmax
         /\ max_count' = IF o.kind = "stall"
                         THEN max_count + 1 ELSE max_count
    /\ UNCHANGED << memory, distribution >>
    /\ UNCHANGED << importance_vars, error, max_iteration, maximum_uninformed, pool,
                    nested_samples, insertion_indices, state, iteration,
                    block_iteration, block_acceptance,
                    mean_block_acceptance, accepted, rejected,
                    acceptance_history, last_updated, logLmin, condition,
                    uninformed_sampling, proposal, populated,
                    training_iterations, training_data, resumed,
                    checkpoints, worst, proposed, count, history,
                    rolling_p >>

NextPopulate == PopulateDraw

SpecPopulate == InitPopulate /\ [][NextPopulate]_vars

(***************************************************************************)
(* insert_live_point on its own: one call on any sorted array.             *)
(***************************************************************************)
\* the points with a log-likelihood of L
Points(L) == {LivePoint(x, 0, l) : x \in 0..MaxParam, l \in L}

\* the arrays of 1 .. MaxLen points in ascending logL order, as
\* populate_live_points and insert_live_point leave them
SortedArrays ==
    {a \in UNION {[1..n -> Points(LogLRange \cup {PosInf})] : n \in 1..MaxLen} :
        IsSortedByLogL(a)}

InitInsert ==
    /\ pc = "insert"
    /\ ConstructedFields(0, 0)
    /\ live_points \in SortedArrays

\* index = self.insert_live_point(proposed);
\* self.insertion_indices.append(index), for any point proposed
Insert ==
    /\ pc = "insert"
    /\ \E p \in Points(LogLRange \cup {NegInf, PosInf, NaN}) :
       \E r \in {insert_live_point(live_points, p)} :
           /\ proposed' = p
           /\ live_points' = r.live_points
           /\ error' = r.error
           /\ insertion_indices' = IF r.error = ""
                                   THEN Append(insertion_indices, r.index)
                                   ELSE insertion_indices
           /\ pc' = IF r.error = "" THEN "inserted" ELSE "crashed"
    /\ UNCHANGED << memory, distribution >>
    /\ UNCHANGED << importance_vars, max_iteration, maximum_uninformed, pool, nested_samples,
                    state, iteration, block_iteration, block_acceptance,
                    mean_block_acceptance, accepted, rejected,
                    acceptance_history, last_updated, logLmin, logLmax,
                    condition, max_count, uninformed_sampling, proposal,
                    populated, training_iterations, training_data, resumed,
                    checkpoints, worst, count, history, rolling_p >>

NextInsert == Insert

SpecInsert == InitInsert /\ [][NextInsert]_vars

(***************************************************************************)
(* _NSintegralState on its own: reset(), then any increment() calls.       *)
(***************************************************************************)
InitIntegral ==
    /\ pc = "integral"
    /\ Constructed(0, 0)

\* self.state.increment(logL) or self.state.increment(logL, nlive=n), for
\* any logL that is not NaN
Increment ==
    /\ pc = "integral"
    /\ state.iteration < MaxIncrements
    /\ \E logL \in LogLRange \cup {NegInf, PosInf},
          n \in (1..MaxOverride) \cup {state.nlive} :
           state' = increment(state, logL, n)
    /\ UNCHANGED << memory, distribution >>
    /\ UNCHANGED << importance_vars, pc, error, max_iteration, maximum_uninformed, pool,
                    live_points, nested_samples, insertion_indices,
                    iteration, block_iteration, block_acceptance,
                    mean_block_acceptance, accepted, rejected,
                    acceptance_history, last_updated, logLmin, logLmax,
                    condition, max_count, uninformed_sampling, proposal,
                    populated, training_iterations, training_data, resumed,
                    checkpoints, worst, proposed, count, history, rolling_p >>

NextIntegral == Increment

SpecIntegral == InitIntegral /\ [][NextIntegral]_vars

(***************************************************************************)
(* CategoricalDistribution on its own: __init__, then any update_samples   *)
(* calls.  An array is its shape and its values in row order; a            *)
(* probability is an exact fraction.                                       *)
(***************************************************************************)
Classes == 0..MaxClass

\* the values of S in ascending order
RECURSIVE Ascending(_)
Ascending(S) ==
    IF S = {} THEN <<>>
    ELSE LET m == CHOOSE x \in S : \A y \in S : x <= y
         IN << m >> \o Ascending(S \ {m})

\* the values of a sequence
Values(s) == {s[i] : i \in 1..Len(s)}

\* np.squeeze(np.array(samples)): the axes of length one are dropped
squeeze(array) ==
    [shape |-> SelectSeq(array.shape, LAMBDA d : d # 1), data |-> array.data]

\* np.unique(samples).tolist()
unique(array) == Ascending(Values(array.data))

\* the counts of np.unique(samples, return_counts=True)
CountOf(array, u) == Cardinality({i \in 1..Len(array.data) : array.data[i] = u})

\* list.index(u), counted from 1
index(list, u) == CHOOSE i \in 1..Len(list) : list[i] = u

\* np.concatenate([a, b], axis=-1) of arrays of at most one dimension
concatenate(a, b) ==
    IF Len(a.shape) = 0 \/ Len(b.shape) = 0
    THEN [error |-> "ValueError", array |-> a]
    ELSE [error |-> "",
          array |-> [shape |-> << Len(a.data) + Len(b.data) >>,
                     data |-> a.data \o b.data]]

\* CategoricalDistribution(n=n, classes=classes), n and classes each None
\* or a value; classes is not the empty list
CategoricalDistribution(n, classes) ==
    [n |-> IF classes # <<>> /\ n = <<>> THEN << Len(classes[1]) >> ELSE n,
     classes |-> classes,
     samples |-> <<>>,
     p |-> IF classes # <<>>
           THEN << [i \in 1..Len(classes[1]) |-> Q(1, Len(classes[1]))] >>
           ELSE <<>>]

\* the constructor raises ValueError('Number of classes does not match `n`')
ConstructorRaises(n, classes) ==
    classes # <<>> /\ n # <<>> /\ n[1] # Len(classes[1])

\* CategoricalDistribution.update_samples(samples, reset): the error raised
\* and the attributes the call leaves behind
categorical_update_samples(d, array, reset_samples) ==
    LET samples == squeeze(array)
        classes == unique(samples)
        known == IF d.classes = <<>> THEN classes ELSE d.classes[1]
        d1 == [d EXCEPT !.classes = << known >>]
        n == IF d.n = <<>> THEN Len(classes) ELSE d.n[1]
        d2 == [d1 EXCEPT !.n = << n >>]
        replace == reset_samples \/ d.samples = <<>>
        joined == IF replace THEN [error |-> "", array |-> samples]
                  ELSE concatenate(d.samples[1], samples)
        stored == joined.array
        d3 == [d2 EXCEPT !.samples = << stored >>]
        \* self.p[self.classes.index(u)] = c / self.samples.size, in the
        \* ascending order of u: the assignments before the first index
        \* that is out of range are made
        fits == {u \in Values(stored.data) : index(known, u) <= n}
        p == [i \in 1..n |->
                 IF i <= Len(known) /\ known[i] \in fits
                 THEN Q(CountOf(stored, known[i]), Len(stored.data))
                 ELSE Q(0, 1)]
    IN  IF Len(samples.shape) > 1
        THEN [error |-> "RuntimeError", distribution |-> d]
        ELSE IF d.classes # <<>> /\ ~(Values(classes) \subseteq Values(known))
        THEN [error |-> "RuntimeError", distribution |-> d]
        ELSE IF d.n # <<>> /\ Len(classes) > n
        THEN [error |-> "RuntimeError", distribution |-> d1]
        ELSE IF joined.error # ""
        THEN [error |-> joined.error, distribution |-> d2]
        ELSE IF fits # Values(stored.data)
        THEN [error |-> "IndexError", distribution |-> [d3 EXCEPT !.p = << p >>]]
        ELSE [error |-> "", distribution |-> [d3 EXCEPT !.p = << p >>]]

\* the arguments of the constructor
GivenN == {<<>>} \cup {<< k >> : k \in 1..MaxN}
GivenClasses == {<<>>} \cup {<< Ascending(S) >> : S \in (SUBSET Classes) \ {{}}}

\* the arrays update_samples is given: a list, a column, or two equal rows
Rows == UNION {[1..k -> Classes] : k \in 0..MaxSamples}
Arrays ==
    {[shape |-> << Len(r) >>, data |-> r] : r \in Rows}
    \cup {[shape |-> << Len(r), 1 >>, data |-> r] : r \in Rows}
    \cup {[shape |-> << 2, Len(r) >>, data |-> r \o r] : r \in Rows}

\* the number of samples the distribution holds
StoredSize(d) == IF d.samples = <<>> THEN 0 ELSE Len(d.samples[1].data)

InitCategorical ==
    /\ pc = "categorical"
    /\ ConstructedSampler(0, 0, 0)
    /\ live_points = <<>>
    /\ \E n \in GivenN, classes \in GivenClasses :
           /\ ~ConstructorRaises(n, classes)
           /\ distribution = CategoricalDistribution(n, classes)

\* distribution.update_samples(samples, reset=reset), for any samples; the
\* caller catches what it raises and keeps the distribution
UpdateSamples ==
    /\ pc = "categorical"
    /\ \E array \in Arrays, reset_samples \in BOOLEAN :
           /\ StoredSize(distribution) + Len(array.data) <= MaxStored
           /\ \E r \in {categorical_update_samples(distribution, array, reset_samples)} :
                  /\ distribution' = r.distribution
                  /\ error' = r.error
    /\ UNCHANGED memory
    /\ UNCHANGED << importance_vars, pc, max_iteration, maximum_uninformed, pool,
                    live_points, nested_samples, insertion_indices, state,
                    iteration, block_iteration, block_acceptance,
                    mean_block_acceptance, accepted, rejected,
                    acceptance_history, last_updated, logLmin, logLmax,
                    condition, max_count, uninformed_sampling, proposal,
                    populated, training_iterations, training_data, resumed,
                    checkpoints, worst, proposed, count, history, rolling_p >>

NextCategorical == UpdateSamples

SpecCategorical == InitCategorical /\ [][NextCategorical]_vars

(***************************************************************************)
(* The importance nested sampler and its meta-proposal.                    *)
(***************************************************************************)
\* ImportanceNestedSampler(model, nlive, ...): nlive is handed to the
\* proposal as initial_draws
initial_draws == NInitial
min_dZ == 5 * SCALE

\* the log-likelihoods the user model returns in the importance runs
LevelLogL == {l * SCALE : l \in 0..MaxLevelLogL}

\* the values compute_stopping_condition and state.compute_condition
\* return: below every threshold or above every threshold
ConditionRange == {0, PosInf}

\* A log-density is written as the terms whose sum it is the logarithm of:
\* << k, w >> is w times the density of proposal k at the sample, Jacobian
\* included.  Proposal -1 is the prior on the unit hypercube (the key
\* 'initial' of n_draws; live_points['it'] = -1), proposals 0, 1, ... are
\* the flows.  Two more terms stand for floats that are no such sum.
PriorTerm == -1
\* the float 0.0 = log(1)
ZeroTerm == -2
NaNTerm == -3

LogOf(terms) == [sign |-> 1, terms |-> terms]
LogNaN == LogOf(<< << NaNTerm, 0 >> >>)
IsLogNaN(v) == \E i \in 1..Len(v.terms) : v.terms[i][1] = NaNTerm

\* unary minus
LogNeg(v) == IF IsLogNaN(v) THEN LogNaN ELSE [v EXCEPT !.sign = -v.sign]

\* np.logaddexp on two log-densities
logaddexp_terms(a, b) ==
    IF IsLogNaN(a) \/ IsLogNaN(b) THEN LogNaN
    ELSE LogOf(a.terms \o b.terms)

\* == on floats: NaN equals nothing
LogEq(a, b) == ~IsLogNaN(a) /\ ~IsLogNaN(b) /\ a = b

\* what a new array holds in a field nobody has written: the default of
\* the field, 0.0 or NaN
DefaultValue(f) == IF f = "nan" THEN LogNaN ELSE LogOf(<< << ZeroTerm, 1 >> >>)

\* ImportanceFlowProposal.initial_log_q = np.log(self.initial_draws)
initial_log_q == LogOf(<< << PriorTerm, initial_draws >> >>)

Sample(x, logL, it, logQ, logW, logG) ==
    [x |-> x, logP |-> 0, logL |-> logL, it |-> it, logQ |-> logQ,
     logW |-> logW, logG |-> logG]

\* ImportanceFlowProposal.__init__; models is len(self.flow.models)
ImportanceFlowProposal ==
    [level_count |-> -1,
     n_draws |-> [k \in {PriorTerm} |-> initial_draws],
     n_requested |-> [k \in {PriorTerm} |-> initial_draws],
     models |-> 0,
     initialised |-> FALSE]

RECURSIVE SumOver(_, _)
SumOver(f, S) ==
    IF S = {} THEN 0
    ELSE LET k == CHOOSE k \in S : TRUE IN f[k] + SumOver(f, S \ {k})

\* ImportanceFlowProposal.total_samples_drawn
total_samples_drawn(prop) == SumOver(prop.n_draws, DOMAIN prop.n_draws)

\* ImportanceFlowProposal._check_fields: logQ must be a registered field
\* (logW is: the sampler registers logW and logG)
check_fields(f) == IF f = "absent" THEN "RuntimeError" ELSE ""

\* CombinedFlowModel.add_new_flow: one more model in flow.models
add_new_flow(models) == models + 1

\* ImportanceFlowProposal.train: a new level with no draws yet and one
\* more flow
train(prop) ==
    [prop EXCEPT
        !.level_count = prop.level_count + 1,
        !.n_draws = [k \in (-1)..(prop.level_count + 1) |->
                         IF k <= prop.level_count THEN prop.n_draws[k]
                         ELSE 0],
        !.n_requested = [k \in (-1)..(prop.level_count + 1) |->
                             IF k <= prop.level_count
                             THEN prop.n_requested[k] ELSE 0],
        !.models = add_new_flow(prop.models)]

\* the terms of the flows lo..hi, each weighted by its pool size n_draws
FlowTerms(n_draws_, lo, hi) ==
    [j \in 1..(hi - lo + 1) |-> << lo + j - 1, n_draws_[lo + j - 1] >>]

\* _compute_log_Q_combined with log_q given (exclude_last): the earlier
\* flows weighted by their pool sizes, the last flow weighted by n, and
\* the prior component
compute_log_Q_combined(prop, n) ==
    logaddexp_terms(
        initial_log_q,
        LogOf(FlowTerms(prop.n_draws, 0, prop.level_count - 1)
              \o << << prop.level_count, n >> >>))

\* _compute_log_Q_independent
compute_log_Q_independent(prop, n) == LogOf(<< << prop.level_count, n >> >>)

\* compute_log_Q; combined_proposal = not replace_all (get_proposal)
compute_log_Q(prop, n, combined_proposal) ==
    IF combined_proposal THEN compute_log_Q_combined(prop, n)
    ELSE compute_log_Q_independent(prop, n)

\* ImportanceFlowProposal.draw(n, logL_min) as called by draw_n_samples.
\* With logL_min = None (leaky) the first n accepted samples come back,
\* logQ and logW set, the other fields at their defaults.  With a logL_min
\* the first batch ends in x['logl'] = ...: there is no field of that name
\* (with n <= 0 no batch is drawn and np.argmax of the empty array
\* raises).  With n <= 0 and no logL_min nothing is drawn and the empty
\* array comes back.
draw(prop, n, is_leaky, combined_proposal, f) ==
    LET requested ==
            [prop EXCEPT !.n_requested[prop.level_count] = @ + n]
        first == total_samples_drawn(prop)
        logQ == compute_log_Q(prop, n, combined_proposal)
    IN  IF ~is_leaky
        THEN [error |-> "ValueError", proposal |-> requested,
              samples |-> <<>>]
        ELSE [error |-> "",
              proposal |->
                  [requested EXCEPT !.n_draws[prop.level_count] =
                                        @ + (IF n > 0 THEN n ELSE 0)],
              samples |->
                  [i \in 1..n |->
                      Sample(first + i, 0, 0, logQ, LogNeg(logQ),
                             DefaultValue(f))]]

\* ImportanceFlowProposal.update_samples: the newest flow, weighted by
\* its pool size, is added to logQ, and logW = -logQ
update_samples(prop, samples) ==
    [i \in 1..Len(samples) |->
        LET logQ == logaddexp_terms(
                        samples[i].logQ,
                        LogOf(<< << prop.level_count,
                                    prop.n_draws[prop.level_count] >> >>))
        IN  [samples[i] EXCEPT !.logQ = logQ, !.logW = LogNeg(logQ)]]

\* the entries vals[i..] whose insertion index is j, in order
RECURSIVE ValuesAt(_, _, _, _)
ValuesAt(idx, vals, j, i) ==
    IF i > Len(vals) THEN <<>>
    ELSE (IF idx[i] = j THEN << vals[i] >> ELSE <<>>)
         \o ValuesAt(idx, vals, j, i + 1)

RECURSIVE InsertFrom(_, _, _, _)
InsertFrom(a, idx, vals, j) ==
    IF j > Len(a) THEN <<>>
    ELSE ValuesAt(idx, vals, j, 1)
         \o (IF j < Len(a) THEN << a[j + 1] >> ELSE <<>>)
         \o InsertFrom(a, idx, vals, j + 1)

\* np.insert(a, idx, vals): vals[i] goes before the entry of a at the
\* (0-based) index idx[i]
np_insert(a, idx, vals) == InsertFrom(a, idx, vals, 0)

\* _INSIntegralState(): no sample has entered the evidence.  logZ is
\* written as the samples whose weighted likelihoods it sums, each with
\* the logL and the logW it had when it entered
INSIntegralState == [logZ |-> <<>>]

EvidenceTerm(s) == << s.x, s.logL, s.logW >>

\* the evidence of the array x
EvidenceOf(x) == [i \in 1..Len(x) |-> EvidenceTerm(x[i])]

\* a faulty update: the evidence is left as it was
evidence_not_updated(st, nested) == st

\* _INSIntegralState.update_evidence_from_nested_samples: the evidence is
\* recomputed from the whole array
update_evidence_from_nested_samples(st, nested) ==
    [st EXCEPT !.logZ = EvidenceOf(nested)]

\* _INSIntegralState.update_evidence: the evidence is incremented with
\* the samples x
update_evidence(st, x) == [st EXCEPT !.logZ = @ \o EvidenceOf(x)]

\* ImportanceNestedSampler.populate_live_points: nlive prior draws with
\* it = -1, logG = log(nlive) and logW = -logG, sorted by logL; logQ is
\* not written
ins_populate_live_points(logLs, f) ==
    SortByLogL([i \in 1..initial_draws |->
                   Sample(i, logLs[i], -1, DefaultValue(f),
                          LogNeg(initial_log_q), initial_log_q)])

\* ImportanceNestedSampler.__init__(..., min_samples=ms) with its
\* proposal, for a user model with the log-likelihoods logLs; a
\* replace_all sampler never updates the nested samples
ConstructedImportanceWith(logLs, ms) ==
    /\ pc = "importance"
    /\ model = logLs
    /\ min_samples = ms
    /\ memory = 0
    /\ distribution = NoDistribution
    /\ error = ""
    /\ fields \in {"absent", "zero", "nan"}
    /\ leaky \in BOOLEAN
    /\ replace_all \in BOOLEAN
    /\ update_nested \in BOOLEAN
    /\ replace_all => ~update_nested
    /\ min_iteration \in {-1, MaxLevels}
    /\ max_iteration \in {1, MaxLevels}
    /\ dZ = PosInf
    /\ condition = PosInf
    /\ min_logL = 0
    /\ n_remove = -1
    /\ training_points = <<>>
    /\ finalised = FALSE
    /\ live_points = <<>>
    /\ nested_samples = <<>>
    /\ iteration = 0
    /\ checkpoints = 0
    /\ proposal = ImportanceFlowProposal
    /\ maximum_uninformed = 0
    /\ pool = [p \in Proposals |-> "none"]
    /\ insertion_indices = <<>>
    /\ state = INSIntegralState
    /\ block_iteration = 0
    /\ block_acceptance = Q(1, 1)
    /\ mean_block_acceptance = Q(1, 1)
    /\ accepted = 0
    /\ rejected = 0
    /\ acceptance_history = <<>>
    /\ last_updated = 0
    /\ logLmin = NegInf
    /\ logLmax = NegInf
    /\ max_count = 0
    /\ uninformed_sampling = FALSE
    /\ populated = FALSE
    /\ training_iterations = <<>>
    /\ training_data = <<>>
    /\ resumed = FALSE
    /\ worst = new_point
    /\ proposed = new_point
    /\ count = 0
    /\ history = <<>>
    /\ rolling_p = <<>>

\* ImportanceNestedSampler.__init__ with min_samples = 1
Constructed_importance(logLs) == ConstructedImportanceWith(logLs, 1)

InitImportance == Constructed_importance(LevelLogL)

\* the attributes of the classical sampler that the importance sampler
\* does not have
classical_vars ==
    << maximum_uninformed, pool, insertion_indices, block_iteration,
       block_acceptance, mean_block_acceptance, accepted, rejected,
       acceptance_history, last_updated, logLmin, logLmax, max_count,
       uninformed_sampling, populated, training_iterations, training_data,
       resumed, worst, proposed, count, history, rolling_p >>

\* ImportanceNestedSampler.initialise: the live points are drawn and
\* proposal.initialise() checks the fields
Initialise ==
    /\ pc = "importance"
    /\ \E logLs \in [1..initial_draws -> model] :
           live_points' = ins_populate_live_points(logLs, fields)
    /\ error' = check_fields(fields)
    /\ proposal' = [proposal EXCEPT !.initialised = (error' = "")]
    /\ pc' = IF error' = "" THEN "level" ELSE "crashed"
    /\ UNCHANGED << min_samples, memory, distribution >>
    /\ UNCHANGED << classical_vars, state, model, max_iteration, nested_samples,
                    iteration, condition, checkpoints, fields, leaky,
                    replace_all, update_nested, min_iteration, dZ,
                    min_logL, n_remove, training_points, finalised >>

\* a faulty test: dZ is not looked at
tolerance_without_dZ ==
    /\ FLe(condition, tolerance)
    /\ iteration >= min_iteration

\* the test at the top of the loop body
ToleranceMet ==
    /\ FLe(condition, tolerance)
    /\ iteration >= min_iteration
    /\ FLe(dZ, min_dZ)

\* the number of entries of a[:n] for an array of that size: a negative
\* n counts from the end
SliceStop(n, size) ==
    IF n >= 0 THEN (IF n < size THEN n ELSE size)
    ELSE (IF size + n > 0 THEN size + n ELSE 0)

\* a[n] is an entry of an array of that size: 0-based, a negative n counts
\* from the end
IndexInRange(n, size) == -size <= n /\ n < size

\* a[n]
ItemAt(a, n) == IF n >= 0 THEN a[n + 1] ELSE a[Len(a) + n + 1]

\* ImportanceNestedSampler.remove_points(n): the live points [:n] go to
\* the nested samples; the rest are the training points and, unless
\* replace_all, the live points (None with replace_all)
remove_points(live, nested, n, all) ==
    LET k == SliceStop(n, Len(live))
    IN  [nested_samples |-> nested \o SubSeq(live, 1, k),
         live_points |-> IF all THEN <<>> ELSE SubSeq(live, k + 1, Len(live)),
         training_points |-> SubSeq(live, k + 1, Len(live))]

\* the clamp of the loop: too few points would remain, so
\* n_remove = live_points.size - min_samples
clamp(n, size, ms) == IF size - n < ms THEN size - ms ELSE n

\* the top of one pass of the loop: the stopping test, determine_level
\* (any number of the live points), the min_samples clamp, min_logL and
\* remove_points
Level ==
    /\ pc = "level"
    /\ IF ToleranceMet
       THEN /\ pc' = "finalise"
            /\ UNCHANGED << n_remove, min_logL, nested_samples,
                            live_points, training_points, state, error >>
       ELSE \E n \in 0..Len(live_points) :
              IF n = 0
              THEN /\ n_remove' = 0
                   /\ pc' = "finalise"
                   /\ UNCHANGED << min_logL, nested_samples, live_points,
                                   training_points, state, error >>
              ELSE \E m \in {clamp(n, Len(live_points), min_samples)} :
                   /\ n_remove' = m
                   /\ IF ~IndexInRange(m, Len(live_points))
                      THEN /\ error' = "IndexError"
                           /\ pc' = "crashed"
                           /\ UNCHANGED << min_logL, nested_samples,
                                           live_points, training_points,
                                           state >>
                      ELSE \E r \in {remove_points(live_points,
                                                   nested_samples, m,
                                                   replace_all)} :
                           /\ min_logL' = ItemAt(live_points, m).logL
                           /\ nested_samples' = r.nested_samples
                           /\ live_points' = r.live_points
                           /\ training_points' = r.training_points
                           /\ state' =
                                  IF update_nested
                                  THEN update_evidence_from_nested_samples(
                                           state, r.nested_samples)
                                  ELSE update_evidence(
                                           state,
                                           SubSeq(live_points, 1,
                                                  SliceStop(
                                                      m, Len(live_points))))
                           /\ pc' = "update_level"
                           /\ UNCHANGED error
    /\ UNCHANGED << min_samples, memory, distribution >>
    /\ UNCHANGED << classical_vars, model, max_iteration, iteration,
                    condition, checkpoints, proposal, fields, leaky,
                    replace_all, update_nested, min_iteration, dZ,
                    finalised >>

\* ImportanceNestedSampler.update_level: proposal.train
UpdateLevel ==
    /\ pc = "update_level"
    /\ proposal' = train(proposal)
    /\ pc' = "add_and_update_points"
    /\ UNCHANGED << min_samples, memory, distribution >>
    /\ UNCHANGED << classical_vars, state, model, error, max_iteration, live_points,
                    nested_samples, iteration, condition, checkpoints,
                    fields, leaky, replace_all, update_nested,
                    min_iteration, dZ, min_logL, n_remove,
                    training_points, finalised >>

\* ImportanceNestedSampler.add_and_update_points(n) with n = nlive for
\* replace_all and n_remove otherwise: draw_n_samples (the likelihoods are
\* evaluated here when leaky), sort, it = iteration, update_live_points,
\* update_nested_samples, and the insertion into the live points.
\* effective_sample_size of an empty batch either returns or raises
AddAndUpdatePoints ==
    /\ pc = "add_and_update_points"
    /\ \E n \in {IF replace_all THEN initial_draws ELSE n_remove} :
       \E d \in {draw(proposal, n, leaky, ~replace_all, fields)} :
       \E raised \in (IF d.error = "" /\ n <= 0 THEN {"", "ValueError"}
                      ELSE {d.error}) :
           /\ proposal' = d.proposal
           /\ error' = raised
           /\ IF raised # ""
              THEN /\ pc' = "crashed"
                   /\ UNCHANGED << live_points, nested_samples >>
              ELSE \E logLs \in [1..n -> model] :
                   \E new_points \in
                       {SortByLogL([i \in 1..n |->
                           [d.samples[i] EXCEPT !.logL = logLs[i],
                                                !.it = iteration]])} :
                   \E live \in {IF live_points = <<>> THEN <<>>
                                ELSE update_samples(d.proposal,
                                                    live_points)} :
                       /\ nested_samples' =
                              IF update_nested
                              THEN update_samples(d.proposal, nested_samples)
                              ELSE nested_samples
                       /\ live_points' =
                              IF live_points = <<>> THEN new_points
                              ELSE np_insert(
                                       live,
                                       [i \in 1..n |->
                                           searchsorted(
                                               live, new_points[i].logL)],
                                       new_points)
                       /\ pc' = "stopping_condition"
    /\ UNCHANGED << min_samples, memory, distribution >>
    /\ UNCHANGED << classical_vars, state, model, max_iteration, iteration, condition,
                    checkpoints, fields, leaky, replace_all, update_nested,
                    min_iteration, dZ, min_logL, n_remove, training_points,
                    finalised >>

\* the rest of the pass: iteration += 1, compute_stopping_condition and
\* the max_iteration test
StoppingCondition ==
    /\ pc = "stopping_condition"
    /\ iteration' = iteration + 1
    /\ condition' \in ConditionRange
    /\ dZ' \in ConditionRange
    /\ pc' = IF iteration' >= max_iteration THEN "finalise" ELSE "level"
    /\ UNCHANGED << min_samples, memory, distribution >>
    /\ UNCHANGED << classical_vars, state, model, error, max_iteration, live_points,
                    nested_samples, checkpoints, proposal, fields, leaky,
                    replace_all, update_nested, min_iteration, min_logL,
                    n_remove, training_points, finalised >>

\* ImportanceNestedSampler.finalise: the remaining live points go to the
\* nested samples and checkpoint(periodic=True) is called
Finalise ==
    /\ pc = "finalise"
    /\ ~finalised
    /\ nested_samples' = nested_samples \o live_points
    /\ state' = update_evidence_from_nested_samples(state, nested_samples')
    /\ live_points' = <<>>
    /\ checkpoints' = checkpoints + 1
    /\ finalised' = TRUE
    /\ pc' = "finished"
    /\ UNCHANGED << min_samples, memory, distribution >>
    /\ UNCHANGED << classical_vars, model, error, max_iteration, iteration,
                    condition, proposal, fields, leaky, replace_all,
                    update_nested, min_iteration, dZ, min_logL, n_remove,
                    training_points >>

\* finalise() on a finalised sampler: it returns at once
FinaliseAgain ==
    /\ pc = "finished"
    /\ finalised
    /\ pc' = "finalised_again"
    /\ UNCHANGED << min_samples, memory, distribution >>
    /\ UNCHANGED << classical_vars, state, model, error, max_iteration,
                    live_points, nested_samples, iteration, condition,
                    checkpoints, proposal, fields, leaky, replace_all,
                    update_nested, min_iteration, dZ, min_logL, n_remove,
                    training_points, finalised >>

NextImportance ==
    \/ Initialise
    \/ Level
    \/ UpdateLevel
    \/ AddAndUpdatePoints
    \/ StoppingCondition
    \/ Finalise
    \/ FinaliseAgain

SpecImportance == InitImportance /\ [][NextImportance]_vars

\* the importance sampler on a user model with a constant likelihood
InitLevels == Constructed_importance({0})

SpecLevels == InitLevels /\ [][NextImportance]_vars

\* the importance sampler with any min_samples, on a user model with a
\* constant likelihood
InitClamp == \E ms \in 0..MaxMinSamples : ConstructedImportanceWith({0}, ms)

SpecClamp == InitClamp /\ [][NextImportance]_vars

(***************************************************************************)
(* Properties.                                                             *)
(***************************************************************************)
\* the positions of nested_sampling_loop at which populate_live_points or
\* a whole consume_sample has completed
AtRest == {"check_state", "consume", "update_state", "final", "done"}

\* C1: after populate_live_points and after every completed consume_sample
\* the live-point array holds exactly nlive entries in ascending logL order
C1_LiveArraySorted ==
    pc \in AtRest =>
        /\ Len(live_points) = nlive
        /\ IsSortedByLogL(live_points)

\* reached for C1: a consume_sample has completed whose new point went
\* between live points of lower and of higher log-likelihood
C1_Witness ==
    /\ pc = "update_state"
    /\ iteration >= 1
    /\ Len(insertion_indices) >= 1
    /\ Last(insertion_indices) < nlive - 1
    /\ FLt(live_points[1].logL, proposed.logL)
    /\ FLt(proposed.logL, live_points[nlive].logL)

\* s without its k-th element
RemoveAt(s, k) == [j \in 1..(Len(s) - 1) |-> IF j < k THEN s[j] ELSE s[j + 1]]

\* the binary-search rank of v in a sorted array: the number of entries
\* that sort before v
Rank(a, v) == Cardinality({j \in 1..Len(a) : SortLess(a[j].logL, v)})

\* C2: on a sorted array and a new point with new.logL > live[0].logL,
\* insert_live_point raises nothing, returns k - 1 for the rank k of
\* new.logL, leaves the new point in slot k - 1, leaves the other slots
\* holding the old array without its rank-0 element in the same order, and
\* leaves the array sorted
C2_InsertIntoSorted ==
    [][(/\ pc = "insert"
        /\ pc' # "insert"
        /\ FGt(proposed'.logL, live_points[1].logL))
       => /\ error' = ""
          /\ Len(live_points') = Len(live_points)
          /\ Last(insertion_indices') = Rank(live_points, proposed'.logL) - 1
          /\ live_points'[Last(insertion_indices') + 1] = proposed'
          /\ \A j \in 1..(Len(live_points) - 1) :
                 RemoveAt(live_points', Last(insertion_indices') + 1)[j]
                     = live_points[j + 1]
          /\ IsSortedByLogL(live_points')]_vars

\* reached for C2: a point was inserted into the middle of a full-length
\* array, left of a live point of equal log-likelihood and with another
\* parameter value
C2_Witness ==
    /\ pc = "inserted"
    /\ Len(live_points) = MaxLen
    /\ insertion_indices = << 1 >>
    /\ live_points[2] = proposed
    /\ live_points[3].logL = proposed.logL
    /\ live_points[3].x # proposed.x
    /\ FLt(live_points[1].logL, proposed.logL)

\* C3: insert_live_point never meets rank 0 in the loop (the ValueError of
\* its empty slice is never raised) and every insertion index lies in
\* [0, nlive)
C3_InsertionIndexInRange ==
    /\ error # "ValueError"
    /\ \A i \in 1..Len(insertion_indices) :
           insertion_indices[i] \in 0..(nlive - 1)

\* reached for C3: two draws were inserted, in different slots
C3_Witness ==
    /\ error = ""
    /\ Len(insertion_indices) = 2
    /\ insertion_indices[1] # insertion_indices[2]
    /\ insertion_indices[2] >= 1

\* C4, as the code has it: after reset() and any increment() calls
\* log_vols, logLs and gradients hold iteration + 1 entries each; info
\* holds at most as many, and fewer once increment() has been called (the
\* first call finds oldZ = -inf and appends no information)
C4_HistoryLengths ==
    pc = "integral" =>
        /\ Len(state.log_vols) = state.iteration + 1
        /\ Len(state.logLs) = state.iteration + 1
        /\ Len(state.gradients) = state.iteration + 1
        /\ Len(state.info) <= state.iteration + 1
        /\ state.iteration >= 1 => Len(state.info) <= state.iteration

\* C4, as the specification states it: the four histories have equal length
C4_FourEqualLengths ==
    pc = "integral" =>
        /\ Len(state.log_vols) = Len(state.logLs)
        /\ Len(state.logLs) = Len(state.info)
        /\ Len(state.info) = Len(state.gradients)

\* reached for C4: three increments, two of which appended an information
\* estimate
C4_Witness ==
    /\ pc = "integral"
    /\ state.iteration = 3
    /\ Len(state.info) = 3
    /\ Len(state.logLs) = 4

\* C5: the log-likelihoods passed to the integrator, logLs after its
\* initial -inf, are weakly increasing, and so are those of nested_samples
C5_LogLsWeaklyIncreasing ==
    /\ \A i \in 2..(Len(state.logLs) - 1) :
           FLe(state.logLs[i], state.logLs[i + 1])
    /\ \A i \in 1..(Len(nested_samples) - 1) :
           FLe(nested_samples[i].logL, nested_samples[i + 1].logL)
    /\ \A i \in 1..Len(nested_samples) :
           state.logLs[i + 1] = nested_samples[i].logL

\* reached for C5: a run of two iterations has ended and its final sweep
\* passed a higher log-likelihood than the loop did
C5_Witness ==
    /\ pc = "done"
    /\ iteration = 2
    /\ Len(state.logLs) = nlive + 3
    /\ FLt(state.logLs[3], state.logLs[nlive + 3])

C7_ConsumeOnlyBelowMaxIteration ==
    pc = "consume" => FGt(condition, tolerance) /\ iteration < max_iteration

\* the log_vols step of the i-th (0-based) increment of the final sweep
SweepStep(i) == -(SCALE \div (nlive - i))

\* C8: when the loop has ended the integrator has been incremented once
\* per remaining live point in array order, the i-th with nlive - i, each
\* point has been appended to nested_samples, finalise() came last, and
\* len(nested_samples) = state.iteration = loop iterations + nlive; before
\* that, both count the loop iterations alone
C8_FinalSweep ==
    /\ pc \in AtRest \ {"done"} =>
           /\ Len(nested_samples) = iteration
           /\ state.iteration = iteration
    /\ pc = "done" =>
           /\ Len(nested_samples) = iteration + nlive
           /\ state.iteration = iteration + nlive
           /\ \A i \in 0..(nlive - 1) :
                  /\ nested_samples[iteration + i + 1] = live_points[i + 1]
                  /\ state.logLs[iteration + i + 2] = live_points[i + 1].logL
                  /\ state.log_vols[iteration + i + 2]
                         = state.log_vols[iteration + i + 1] + SweepStep(i)
           /\ state.logZ = log_integrate_log_trap(state.logLs, state.log_vols)

\* reached for C8: a run of two iterations has ended
C8_Witness ==
    /\ pc = "done"
    /\ iteration = 2
    /\ Len(nested_samples) = nlive + 2
    /\ FLt(live_points[1].logL, live_points[nlive].logL)

\* a step in which check_state ran
CheckStateStep ==
    \/ pc = "check_state"
    \/ pc = "draw" /\ rejected' = rejected + 1

\* a step in which the proposal was trained
Trained == Len(training_iterations') = Len(training_iterations) + 1

\* C9, as the code has it: check_state() and check_state(rejected=True)
\* train within cooldown iterations of the last training only when
\* proposal.populated is false and train_on_empty is set (force_train is
\* always True, so an empty proposal forces the training)
C9_CooldownUnlessEmpty ==
    [][(CheckStateStep /\ Trained)
       => \/ iteration - last_updated >= cooldown
          \/ ~populated' /\ train_on_empty]_vars

\* C9, as the specification states it: with no force=True from the
\* caller, check_state never trains within cooldown iterations of the last
\* training
C9_CooldownUnlessForced ==
    [][(CheckStateStep /\ Trained)
       => iteration - last_updated >= cooldown]_vars

\* reached for C9: a draw was rejected within the cooldown, with the block
\* acceptance below the threshold and the proposal populated, and
\* check_state(rejected=True) did not train
C9_Witness ==
    /\ pc = "draw"
    /\ rejected = 2
    /\ populated
    /\ proposal = "flow"
    /\ QLt(mean_block_acceptance, acceptance_threshold)
    /\ iteration - last_updated < cooldown
    /\ training_iterations = << last_updated >>
    /\ last_updated >= 1

\* check_state's condition for leaving the uninformed proposal
SwitchDue ==
    \/ QLt(mean_acceptance(acceptance_history),
           uninformed_acceptance_threshold)
    \/ iteration >= maximum_uninformed

\* C10, as the specification states it: in uninformed mode check_state
\* switches to the flow proposal exactly when the mean acceptance is below
\* uninformed_acceptance_threshold or iteration >= maximum_uninformed, and
\* trains nothing otherwise; the uninformed proposal never comes back
C10_SwitchExactlyWhenDue ==
    [][/\ (CheckStateStep /\ uninformed_sampling)
          => /\ (~uninformed_sampling' /\ proposal' = "flow") <=> SwitchDue
             /\ ~SwitchDue => ~Trained
       /\ ~uninformed_sampling => ~uninformed_sampling']_vars

\* whether the check_state call of this step finds a training due: decided
\* (not in uninformed mode any more) and not suppressed by the cooldown
TrainingDue ==
    LET since == iteration - last_updated
        low == QLt(mean_block_acceptance, acceptance_threshold)
        empty == ~populated' /\ train_on_empty
        decided ==
            \/ low /\ retrain_acceptance /\ (since < cooldown \/ pc = "draw")
            \/ since % training_frequency = 0
            \/ empty
    IN  /\ error' = ""
        /\ ~uninformed_sampling'
        /\ decided
        /\ since >= cooldown \/ (empty /\ force_train)

\* C11: only resume sets the resumed flag; while it is set the first
\* check_state call that finds a training due trains nothing, leaves
\* last_updated, block_iteration and block_acceptance alone, writes no
\* checkpoint and clears the flag, and every other call leaves the flag
\* set; with the flag clear a due training is carried out
C11_ResumeSkipsOneTraining ==
    [][/\ (resumed' /\ ~resumed) => (AtCheckpoint /\ pc' # "draw")
       /\ (CheckStateStep /\ resumed /\ TrainingDue)
              => /\ ~Trained
                 /\ ~resumed'
                 /\ UNCHANGED << last_updated, block_iteration,
                                 block_acceptance, checkpoints,
                                 training_data >>
       /\ (CheckStateStep /\ resumed /\ ~TrainingDue)
              => resumed' /\ ~Trained
       /\ (CheckStateStep /\ ~resumed /\ TrainingDue)
              => /\ Trained
                 /\ ~resumed'
                 /\ last_updated' = iteration
                 /\ checkpoints' = checkpoints + 1]_vars

\* reached for C11: a resumed run has skipped one training at the top of
\* the loop and has trained again on a rejected draw of the same iteration
C11_Witness ==
    /\ pc = "check_state"
    /\ ~resumed
    /\ Len(history) = iteration + 2
    /\ training_iterations = << 0, 1 >>
    /\ checkpoints = 2

\* a step of consume_sample's while loop in which yield_sample abandoned
\* its attempt: no candidate was accepted and 1 / counter fell below
\* acceptance_threshold
StallStep == pc = "draw" /\ max_count' = max_count + 1

\* C12, as the specification states it: on a stall max_count grows by
\* exactly one and the seed comes back unchanged at a cost of counter
\* draws; consume_sample counts a rejection, calls check_state(rejected=
\* True) and retries, and never inserts the returned seed
C12_StallRejectedAndRetried ==
    [][StallStep
       => /\ count' = count + StallCounter
          /\ Q(1, StallCounter)[1] * acceptance_threshold[2]
                 < acceptance_threshold[1] * Q(1, StallCounter)[2]
          /\ proposed' = worst
          /\ rejected' = rejected + 1
          /\ CheckStateStep
          /\ UNCHANGED << live_points, insertion_indices, accepted,
                          acceptance_history, nested_samples >>
          /\ pc' = "draw"]_vars

\* C12 for the stalls whose check_state call returns
C12_StallRetriedUnlessCrashed ==
    [][StallStep
       => /\ count' = count + StallCounter
          /\ proposed' = worst
          /\ rejected' = rejected + 1
          /\ UNCHANGED << live_points, insertion_indices, accepted,
                          acceptance_history, nested_samples >>
          /\ error' = "" => pc' = "draw"]_vars

\* C13, as the specification states it: populate_live_points returns
\* with nlive stored points in ascending logL order, each with a finite
\* logP and a finite logL
C13_StoredPointsFinite ==
    pc = "populated" =>
        /\ Len(live_points) = nlive
        /\ IsSortedByLogL(live_points)
        /\ \A i \in 1..nlive : FinitePoint(live_points[i])

\* C13 for what the store test does exclude: no stored logP or logL is
\* -inf, no stored logL is NaN
C13_StoredPointsNotMinusInf ==
    pc = "populated" =>
        /\ Len(live_points) = nlive
        /\ IsSortedByLogL(live_points)
        /\ \A i \in 1..nlive :
               /\ live_points[i].logP # NegInf
               /\ live_points[i].logL # NegInf
               /\ ~IsNaN(live_points[i].logL)

\* the positions of the importance run from the first pass of its loop on
InLevels ==
    {"level", "update_level", "add_and_update_points",
     "stopping_condition", "finalise", "finished"}

\* how often the sample x occurs in the array s
Occurrences(s, x) == Cardinality({i \in 1..Len(s) : s[i].x = x})

\* C14, as the specification states it, for the importance loop: every
\* sample drawn so far (all of them are admitted to the live points: the
\* prior draws and, when leaky, every flow draw) is in the live points or
\* in the nested samples, once, and in the nested samples when the run
\* has finished
C14_SamplesConserved ==
    pc \in InLevels =>
        \A x \in 1..total_samples_drawn(proposal) :
            /\ Occurrences(live_points, x)
                   + Occurrences(nested_samples, x) = 1
            /\ pc = "finished" => Occurrences(nested_samples, x) = 1

\* C14 for the importance samplers that do not replace all live points
C14_ConservedUnlessReplaceAll == ~replace_all => C14_SamplesConserved

\* C14 for the classical loop: consume_sample archives the worst point,
\* an accepted draw takes its slot, the final sweep archives the live
\* points, and nothing else touches either array
C14_ClassicalConserved ==
    [][pc # "init" =>
         /\ (pc = "consume" /\ pc' = "draw")
                => /\ nested_samples' = Append(nested_samples, live_points[1])
                   /\ live_points' = live_points
         /\ (pc = "draw" /\ pc' = "update_state")
                => /\ nested_samples' = nested_samples
                   /\ SortByLogL(live_points')
                          = SortByLogL(Append(Tail(live_points), proposed'))
         /\ (pc = "final" /\ pc' = "done")
                => /\ nested_samples' = nested_samples \o live_points
                   /\ live_points' = live_points
         /\ ~(pc = "consume" /\ pc' = "draw")
                 /\ ~(pc = "draw" /\ pc' = "update_state")
                 /\ ~(pc = "final" /\ pc' = "done")
                => UNCHANGED << live_points, nested_samples >>]_vars

\* the positions of the importance run at which a level update (remove,
\* train, draw, update, insert) has completed
AfterLevelUpdate ==
    IF pc = "stopping_condition" THEN TRUE
    ELSE pc \in {"level", "finalise", "finished"} /\ iteration >= 1

Consistent(s) == LogEq(s.logW, LogNeg(s.logQ))

\* C15, as the specification states it: after any level update every
\* sample in the live points and in the nested samples has logW == -logQ
C15_WeightsConsistent ==
    AfterLevelUpdate =>
        /\ \A i \in 1..Len(live_points) : Consistent(live_points[i])
        /\ \A i \in 1..Len(nested_samples) : Consistent(nested_samples[i])

\* C15 where every array is updated and the unwritten logQ of the prior
\* draws is not NaN
C15_ConsistentWhenAllUpdated ==
    (update_nested /\ fields = "zero") => C15_WeightsConsistent

\* C15 for the samples drawn from the flows: draw and update_samples
\* keep logW == -logQ
C15_FlowDrawsConsistent ==
    AfterLevelUpdate =>
        /\ \A i \in 1..Len(live_points) :
               live_points[i].it >= 0 => Consistent(live_points[i])
        /\ \A i \in 1..Len(nested_samples) :
               nested_samples[i].it >= 0 => Consistent(nested_samples[i])

\* the components of the meta-proposal of prop: the prior with weight
\* initial_draws and every flow 0..level_count with its draw count
Components(prop) ==
    {<< PriorTerm, initial_draws >>}
        \cup {<< k, prop.n_draws[k] >> : k \in 0..prop.level_count}

\* v is the log of the sum of the components of prop, each taken once
Composed(v, prop) ==
    /\ ~IsLogNaN(v)
    /\ v.sign = 1
    /\ Len(v.terms) = prop.level_count + 2
    /\ {v.terms[i] : i \in 1..Len(v.terms)} = Components(prop)

\* C16, as the specification states it: after each level update the logQ
\* of every live point is the log of the prior component plus every
\* trained flow once, each weighted by its draw count
C16_MetaProposalComposition ==
    AfterLevelUpdate =>
        \A i \in 1..Len(live_points) :
            Composed(live_points[i].logQ, proposal)

\* C16 for the live points drawn from the flows of a combined proposal
C16_FlowDrawsComposed ==
    (AfterLevelUpdate /\ ~replace_all) =>
        \A i \in 1..Len(live_points) :
            live_points[i].it >= 0
                => Composed(live_points[i].logQ, proposal)

\* a step that leaves the loop for finalise()
LoopExit == pc \in {"level", "stopping_condition"} /\ pc' = "finalise"

\* C17: the loop is left from the top of a pass only with n_remove == 0
\* or with condition <= tolerance, iteration >= min_iteration and
\* dZ <= min_dZ all true there, and from the end of a pass only with
\* iteration >= max_iteration; there is no other way to finalise()
C17_LoopExits ==
    [][LoopExit =>
         \/ /\ pc = "level"
            /\ n_remove' # 0
            /\ FLe(condition, tolerance)
            /\ iteration >= min_iteration
            /\ FLe(dZ, min_dZ)
         \/ /\ pc = "level"
            /\ n_remove' = 0
         \/ /\ pc = "stopping_condition"
            /\ iteration' >= max_iteration]_vars

\* reached for C17: after one level, below max_iteration and with points
\* removed, the loop was left on the tolerance criterion
C17_Witness ==
    /\ pc = "finalise"
    /\ iteration = 1
    /\ iteration < max_iteration
    /\ n_remove >= 1
    /\ FLe(condition, tolerance)
    /\ iteration >= min_iteration
    /\ FLe(dZ, min_dZ)
    /\ Len(live_points) >= 1

\* C18, as the specification states it: in the importance loop a
\* checkpoint has been written for every completed level before the next
\* pass begins (the checkpoint of finalise() may stand for the last level)
C18_CheckpointEveryLevel ==
    pc \in InLevels \ {"finalise"} => checkpoints >= iteration

\* what the code does for C18: the only checkpoint of an importance run
\* is the one finalise() writes
C18_CheckpointOnlyAtFinalise ==
    pc \in InLevels \cup {"importance"} =>
        checkpoints = IF pc = "finished" THEN 1 ELSE 0

\* C19: from the first train call on len(flow.models) == level_count + 1
\* and n_draws and n_requested have the same keys, 'initial' and
\* 0..level_count; no step of the run removes a key or lowers a count
C19_LevelsAppendOnly ==
    /\ [](pc \in InLevels =>
            /\ proposal.models = proposal.level_count + 1
            /\ DOMAIN proposal.n_draws = (-1)..proposal.level_count
            /\ DOMAIN proposal.n_requested = DOMAIN proposal.n_draws)
    /\ [][(pc \in InLevels) =>
            \A k \in DOMAIN proposal.n_draws :
                /\ k \in DOMAIN proposal'.n_draws
                /\ proposal'.n_draws[k] >= proposal.n_draws[k]
                /\ proposal'.n_requested[k] >= (proposal.n_requested[k])]_vars

\* C20, as the specification states it: in every pass, leaky or not,
\* add_and_update_points returns and leaves the live points sorted
\* ascending by logL
C20_SortedAfterAdd ==
    [][(pc = "add_and_update_points")
       => /\ pc' = "stopping_condition"
          /\ Len(live_points') >= 1
          /\ IsSortedByLogL(live_points')]_vars

\* C20 for the leaky sampler, and for every add_and_update_points call
\* that returns
C20_SortedWhenLeaky ==
    [][(pc = "add_and_update_points" /\ (leaky \/ pc' # "crashed"))
       => /\ pc' = "stopping_condition"
          /\ leaky
          /\ Len(live_points') >= 1
          /\ IsSortedByLogL(live_points')]_vars

\* C21: finalise() appends the remaining live points to nested_samples,
\* each once and in order, and leaves logZ computed from the whole of the
\* resulting array; a second call changes neither
C21_FinaliseOnce ==
    [][/\ (pc = "finalise")
          => /\ nested_samples' = nested_samples \o live_points
             /\ \A i \in 1..Len(live_points) :
                    Occurrences(nested_samples', live_points[i].x) = 1
             /\ state'.logZ = EvidenceOf(nested_samples')
       /\ (pc = "finished")
          => UNCHANGED << nested_samples, state >>]_vars

\* reached for C21: a sampler that archived a point in its loop and two
\* more in finalise() has been finalised a second time
C21_Witness ==
    /\ pc = "finalised_again"
    /\ iteration >= 1
    /\ ~update_nested
    /\ Len(nested_samples) >= 3
    /\ Len(state.logZ) = Len(nested_samples)

\* the part of consume_sample before its while loop
ArchivesWorst ==
    /\ worst' = live_points[1]
    /\ logLmin' = live_points[1].logL
    /\ state'.iteration = state.iteration + 1
    /\ Last(state'.logLs) = live_points[1].logL
    /\ nested_samples' = Append(nested_samples, live_points[1])
    /\ iteration' = iteration + 1
    /\ pc' = "draw"
    /\ UNCHANGED << live_points, insertion_indices >>

\* a pass of the while loop that rejects its draw
RejectsDraw ==
    /\ pc' = "draw"
    /\ ~FGt(proposed'.logL, logLmin)
    /\ UNCHANGED << live_points, insertion_indices, nested_samples, state,
                    iteration, logLmin >>

\* the pass of the while loop that replaces the worst point
ReplacesWorst ==
    /\ pc' = "update_state"
    /\ FGt(proposed'.logL, logLmin)
    /\ Len(insertion_indices') = Len(insertion_indices) + 1
    /\ live_points'[Last(insertion_indices') + 1] = proposed'
    /\ UNCHANGED << nested_samples, state, iteration, logLmin >>

\* the counters of the loop agree
CountersAgree ==
    /\ Len(insertion_indices) = iteration
    /\ state.iteration = iteration
    /\ Len(nested_samples) = iteration

\* C22, as the specification states it: consume_sample archives the
\* worst point (copy, logLmin, one increment, nested_samples), then draws
\* until a candidate beats logLmin, inserts that one and records one
\* insertion index; whenever it has been called and is not running, the
\* insertion indices, the iterations, the integrator's iterations and
\* the nested samples count the same
C22_ConsumeSample ==
    /\ [][/\ (pc = "consume") => ArchivesWorst
          /\ (pc = "draw") => (RejectsDraw \/ ReplacesWorst)]_vars
    /\ [](pc \in {"check_state", "update_state", "crashed"}
             => CountersAgree)

\* C22 for the calls that no exception ends
C22_ConsumeSampleUnlessCrashed ==
    /\ [][/\ (pc = "consume") => ArchivesWorst
          /\ (pc = "draw" /\ pc' # "crashed")
                 => (RejectsDraw \/ ReplacesWorst)
          /\ (pc = "draw" /\ pc' = "crashed")
                 => (error' = "AttributeError" /\ rejected' = rejected + 1)
         ]_vars
    /\ [](pc \in {"check_state", "update_state"} => CountersAgree)

\* a check_state call that gets as far as its training branch: a training
\* is decided, the cooldown is over or overridden and no resume skips it
TrainingStarted ==
    LET since == iteration - last_updated
        low == QLt(mean_block_acceptance, acceptance_threshold)
        empty == ~populated' /\ train_on_empty
        decided ==
            \/ low /\ retrain_acceptance /\ (since < cooldown \/ pc = "draw")
            \/ since % training_frequency = 0
            \/ empty
    IN  /\ CheckStateStep
        /\ error' # "AttributeError"
        /\ ~uninformed_sampling'
        /\ decided
        /\ since >= cooldown \/ (empty /\ force_train)
        /\ ~resumed

\* the last m entries of s
LastOf(s, m) == SubSeq(s, Len(s) - m + 1, Len(s))

\* C23, as the specification states it: a check_state call that trains
\* hands the proposal the live points, followed by the last memory nested
\* samples when memory is set and that many exist
C23_TrainingSet ==
    [][TrainingStarted
       => /\ Trained
          /\ training_data' =
                 IF memory # 0 /\ Len(nested_samples) >= memory
                 THEN live_points \o LastOf(nested_samples, memory)
                 ELSE live_points]_vars

\* what the code does for C23: it trains on the live points alone while
\* memory is off or the nested samples are fewer, and raises ValueError
\* otherwise
C23_TrainingSetOrValueError ==
    [][TrainingStarted
       => IF memory # 0 /\ Len(nested_samples) >= memory
          THEN /\ ~Trained
               /\ error' = "ValueError"
               /\ pc' = "crashed"
          ELSE /\ Trained
               /\ error' = ""
               /\ training_data' = live_points]_vars

\* the number of points add_and_update_points is asked for
n_add == IF replace_all THEN initial_draws ELSE n_remove

\* a non-leaky add_and_update_points call
NonLeakyAdd == pc = "add_and_update_points" /\ ~leaky

\* C24, as the specification states it: a non-leaky draw returns a batch
\* of evaluated samples of which exactly n are at or above min_logL;
\* those n join the live points, the others the nested samples;
\* n_requested of the level grows by n and n_draws by the batch
C24_NonLeakyDraw ==
    [][NonLeakyAdd
       => LET level == proposal.level_count
              batch == proposal'.n_draws[level] - proposal.n_draws[level]
          IN  /\ error' = ""
              /\ pc' = "stopping_condition"
              /\ proposal'.n_requested[level]
                     = proposal.n_requested[level] + n_add
              /\ batch >= n_add
              /\ Len(live_points') = Len(live_points) + n_add
              /\ Len(nested_samples') = Len(nested_samples) + batch - n_add
              /\ \A i \in 1..Len(live_points') :
                     live_points'[i].it = iteration
                         => FLe(min_logL, live_points'[i].logL)]_vars

\* what the code does for C24: the draw counts the request and raises
\* ValueError, nothing is drawn, inserted or archived
C24_NonLeakyDrawRaises ==
    [][NonLeakyAdd
       => LET level == proposal.level_count
          IN  /\ error' = "ValueError"
              /\ pc' = "crashed"
              /\ proposal'.n_requested[level]
                     = proposal.n_requested[level] + n_add
              /\ proposal'.n_draws = proposal.n_draws
              /\ UNCHANGED << live_points, nested_samples >>]_vars

\* a pass of the loop that gets as far as remove_points
RemovesPoints == pc = "level" /\ pc' = "update_level"

\* C25, as the specification states it: the count handed to
\* remove_points leaves at least min_samples live points, and at least
\* min_samples points are the training points afterwards
C25_ClampLeavesMinSamples ==
    [][RemovesPoints
       => /\ Len(live_points) - n_remove' >= min_samples
          /\ Len(training_points') >= min_samples]_vars

\* C25 for the samplers with at least min_samples live points
C25_ClampWhenEnoughLive ==
    [][(RemovesPoints /\ min_samples <= Len(live_points))
       => /\ Len(live_points) - n_remove' >= min_samples
          /\ Len(training_points') >= min_samples
          /\ Len(training_points') = Len(live_points) - n_remove']_vars

\* a pass of the loop that gets as far as live_points[n_remove]
IndexesLivePoints == pc = "level" /\ pc' \in {"update_level", "crashed"}

\* C27, as the specification states it: the n_remove that indexes the
\* live points and goes to remove_points is at least 1 and at most
\* live_points.size - 1
C27_RemovalCountUsable ==
    [][IndexesLivePoints
       => /\ 1 <= n_remove'
          /\ n_remove' <= Len(live_points) - 1]_vars

\* C27 for the samplers with 1 <= min_samples < nlive
C27_UsableWhenEnoughLive ==
    [][(IndexesLivePoints /\ 1 <= min_samples
            /\ min_samples < Len(live_points))
       => /\ 1 <= n_remove'
          /\ n_remove' <= Len(live_points) - 1
          /\ error' = ""]_vars

\* C19 for the samplers whose removal count is never negative
C19_AppendOnlyWhenEnoughLive ==
    [][(pc \in InLevels /\ min_samples <= initial_draws) =>
            \A k \in DOMAIN proposal.n_draws :
                /\ k \in DOMAIN proposal'.n_draws
                /\ proposal'.n_draws[k] >= proposal.n_draws[k]
                /\ proposal'.n_requested[k] >= (proposal.n_requested[k])]_vars

(***************************************************************************)
(* C26: update_samples and its errors.                                     *)
(***************************************************************************)
\* the step is the call update_samples(array, reset=reset)
Called(array, reset_samples) ==
    /\ pc = "categorical"
    /\ distribution' = categorical_update_samples(distribution, array, reset_samples).distribution
    /\ error' = categorical_update_samples(distribution, array, reset_samples).error

\* the samples contain a class outside the known classes
NewClass(array) ==
    /\ distribution.classes # <<>>
    /\ ~(Values(unique(squeeze(array))) \subseteq Values(distribution.classes[1]))

\* the samples contain more classes than n
TooManyClasses(array) ==
    /\ distribution.n # <<>>
    /\ Len(unique(squeeze(array))) > distribution.n[1]

\* p has length n and sums to 1
Normalised(d) ==
    /\ d.p # <<>>
    /\ d.n # <<>>
    /\ Len(d.p[1]) = d.n[1]
    /\ QSum(d.p[1]) = Q(1, 1)

\* update_samples raises RuntimeError for a new class and for more classes
\* than n
FailsFast ==
    \A array \in Arrays, reset_samples \in BOOLEAN :
        Called(array, reset_samples) /\ (NewClass(array) \/ TooManyClasses(array))
            => error' = "RuntimeError"

\* C26: update_samples raises RuntimeError when the samples contain a
\* class outside the known classes or more classes than n, such a call leaves
\* classes, n, samples and p as they were, and after a call that raises
\* nothing p has length n and sums to 1
C26_UpdateSamples ==
    [][/\ FailsFast
       /\ \A array \in Arrays, reset_samples \in BOOLEAN :
              Called(array, reset_samples) =>
                  /\ (NewClass(array) \/ TooManyClasses(array))
                         => distribution' = distribution
                  /\ (error' = "") => Normalised(distribution')]_vars

\* the part of C26 that holds: the RuntimeError is raised; with the classes
\* known before the call the failed call changes nothing; a call that raises
\* nothing and leaves at least one sample leaves p normalised
C26_UpdateSamplesWithKnownClasses ==
    [][/\ FailsFast
       /\ \A array \in Arrays, reset_samples \in BOOLEAN :
              Called(array, reset_samples) =>
                  /\ ((NewClass(array) \/ TooManyClasses(array))
                          /\ distribution.classes # <<>>)
                         => distribution' = distribution
                  /\ (error' = "" /\ StoredSize(distribution') > 0)
                         => Normalised(distribution')]_vars

(***************************************************************************)
(* C28: the points populate_live_points stores.                            *)
(***************************************************************************)
\* the step is the pass of populate_live_points' loop in which yield_sample
\* yields o
PopulateStep(o) ==
    /\ pc = "populate"
    /\ \E store \in {IF populate_stores(o.point)
                      THEN Append(live_points, o.point)
                      ELSE live_points} :
           live_points' = IF Len(store) = nlive THEN SortByLogL(store) ELSE store
    /\ logLmax' = IF o.kind = "accept"
                   THEN FMax(logLmax, o.point.logL) ELSE logLmax
    /\ max_count' = IF o.kind = "stall" THEN max_count + 1 ELSE max_count

\* the pass stores a point
StoresPoint == Len(live_points') = Len(live_points) + 1

\* C28: a point is stored by populate_live_points only in a pass whose
\* yield_sample accepted a candidate, whose logL is the value the likelihood
\* returned; the seed that comes back from a stalled or emptied draw is not
\* stored
C28_StoredPointsEvaluated ==
    [][\A o \in yield_sample_from(new_point, logLmin, AnyLogP, AnyLogL) :
           (PopulateStep(o) /\ StoresPoint) => o.kind = "accept"]_vars

\* what populate_live_points does with the seed: it is stored as it was
\* made, with the default logL of 0, and every other stored point is an
\* accepted candidate with its log-likelihood
C28_SeedStoredUnevaluated ==
    [][\A o \in yield_sample_from(new_point, logLmin, AnyLogP, AnyLogL) :
           (PopulateStep(o) /\ StoresPoint) =>
               \/ o.kind = "accept" /\ o.point.logL \in AnyLogL \ {NegInf, NaN}
               \/ o.kind \in {"stall", "empty"} /\ o.point = new_point]_vars

(***************************************************************************)
(* C29: the size of the live array in the importance loop.                 *)
(***************************************************************************)
\* remove_points takes n_remove points from the live array to the nested
\* samples
RemovesCount ==
    RemovesPoints =>
        /\ Len(live_points') = Len(live_points) - n_remove'
        /\ Len(nested_samples') = Len(nested_samples) + n_remove'

\* add_and_update_points puts n_remove new points into the live array
InsertsCount ==
    pc = "add_and_update_points" =>
        /\ pc' = "stopping_condition"
        /\ Len(live_points') = Len(live_points) + n_remove

\* the live array at the end of a pass
LiveCountKept ==
    pc = "stopping_condition" => Len(live_points) = initial_draws

\* C29: without replace_all every pass of the loop removes n_remove live
\* points and inserts n_remove new ones, leaky or not, and the live array
\* has nlive points at the end of the pass
C29_LiveCountConstant ==
    /\ [][~replace_all => (RemovesCount /\ InsertsCount)]_vars
    /\ [](~replace_all => LiveCountKept)

\* C29 for the leaky samplers with 1 <= min_samples < nlive
C29_LeakyLiveCountConstant ==
    /\ [][(~replace_all /\ leaky /\ 1 <= min_samples
              /\ min_samples < initial_draws)
          => (RemovesCount /\ InsertsCount)]_vars
    /\ []((~replace_all /\ leaky /\ 1 <= min_samples
              /\ min_samples < initial_draws) => LiveCountKept)

(***************************************************************************)
(* C30: the divisor of mean_block_acceptance.                              *)
(***************************************************************************)
\* consume_sample gets as far as mean_block_acceptance
ComputesMeanBlockAcceptance == pc = "draw" /\ pc' = "update_state"

\* C30: in the rejection loop of consume_sample block_iteration is at
\* least 1, whatever trainings check_state(rejected=True) has run and
\* whatever update_state reset, so the division that gives
\* mean_block_acceptance never fails and divides by a count of at least 1
C30_BlockIterationPositive ==
    /\ [](pc = "draw" => block_iteration >= 1)
    /\ [](error # "ZeroDivisionError")
    /\ [][ComputesMeanBlockAcceptance
          => /\ block_iteration >= 1
             /\ mean_block_acceptance' =
                    QDivInt(block_acceptance', block_iteration)]_vars

\* reached for C30: mean_block_acceptance has been computed in the pass
\* whose rejection loop trained, so block_iteration was reset to 0 and
\* raised to 1 inside the loop
C30_Witness ==
    /\ pc = "update_state"
    /\ training_iterations # <<>>
    /\ Last(training_iterations) = iteration
    /\ last_updated = iteration
    /\ block_iteration = 1
    /\ mean_block_acceptance = block_acceptance

====
